---- MODULE Spec2Model ----
(***************************************************************************)
(* Model of the agentic lifecycle of book_creator:                         *)
(*   - AgenticState and its transition table (models/agentic.py)           *)
(*   - AgenticBookGenerator.generate_from_prompt and its helpers           *)
(*     (agentic.py): phases, the review/repair loop, progress reports and  *)
(*     the exception handler.                                              *)
(* Two specifications share the variables:                                 *)
(*   StateSpec  any sequence of can_transition_to / transition_to calls    *)
(*              on a fresh AgenticState (as tests/test_agentic.py does);   *)
(*   Spec       one run of generate_from_prompt on a fresh generator, with *)
(*              every external call (agent, progress callback) free to     *)
(*              raise; LiveSpec adds the fairness of a sequential program. *)
(***************************************************************************)
EXTENDS Integers, Sequences, FiniteSets

\* ---------------------------------------------------------------- bounds
MaxChapters == 2
MaxRepair == 3
MaxCalls == 11
MaxRuns == 2

\* ------------------------------------------------------- LifecycleState
INIT == "init"
INTERPRET == "interpret"
PLAN == "plan"
WRITE == "write"
REVIEW == "review"
REPAIR == "repair"
FORMAT == "format"
EXPORT == "export"
COMPLETE == "complete"
FAILED == "failed"

LifecycleState ==
    {INIT, INTERPRET, PLAN, WRITE, REVIEW, REPAIR, FORMAT, EXPORT, COMPLETE, FAILED}

\* Optional values: None is the empty sequence, a present value v is <<v>>
None == <<>>
Some(v) == <<v>>

VARIABLES
    \* AgenticState
    current_state, completed_at, errors, max_repair_iterations,
    chapters_written, chapters_reviewed, repair_iterations, review_results,
    blueprint, output_path,
    \* locals of generate_from_prompt and the position in it
    pc, outcome, repair_iteration, book, index,
    \* observations of a run
    clock, reported, entered, fault, repairPasses, reviewPasses, allFailed,
    written,
    \* observations of direct calls on an AgenticState
    lastCall, happy,
    \* the generator across runs: the runs started, what the last Start found
    \* (the AgenticState it replaced, whether the author held concepts), and the
    \* AuthorAgent's _introduced_concepts
    run, previous, introduced_concepts

stateVars == <<current_state, completed_at, errors, max_repair_iterations,
               chapters_written, chapters_reviewed, repair_iterations,
               review_results, blueprint, output_path>>
runVars == <<pc, outcome, repair_iteration, book, index>>
obsVars == <<reported, entered, fault, repairPasses, reviewPasses, allFailed, written>>
callVars == <<lastCall, happy>>
genVars == <<run, previous, introduced_concepts>>
vars == <<stateVars, runVars, obsVars, callVars, genVars, clock>>

\* ------------------------------------------------------------ helpers
In(x, seq) == \E i \in 1..Len(seq) : seq[i] = x

\* allowed_transitions of can_transition_to: the list of each state
AllowedTransitions_NoRepair(s) ==
    CASE s = INIT -> <<INTERPRET, FAILED>>
      [] s = INTERPRET -> <<PLAN, FAILED>>
      [] s = PLAN -> <<WRITE, FAILED>>
      [] s = WRITE -> <<REVIEW, FAILED>>
      [] s = REVIEW -> <<FORMAT, FAILED>>
      [] s = REPAIR -> <<REVIEW, FAILED>>
      [] s = FORMAT -> <<EXPORT, FAILED>>
      [] s = EXPORT -> <<COMPLETE, FAILED>>
      [] s = COMPLETE -> <<>>
      [] s = FAILED -> <<>>
      [] OTHER -> <<>>

AllowedTransitions(s) ==
    CASE s = INIT -> <<INTERPRET, FAILED>>
      [] s = INTERPRET -> <<PLAN, FAILED>>
      [] s = PLAN -> <<WRITE, FAILED>>
      [] s = WRITE -> <<REVIEW, FAILED>>
      [] s = REVIEW -> <<FORMAT, REPAIR, FAILED>>
      [] s = REPAIR -> <<REVIEW, FAILED>>
      [] s = FORMAT -> <<EXPORT, FAILED>>
      [] s = EXPORT -> <<COMPLETE, FAILED>>
      [] s = COMPLETE -> <<>>
      [] s = FAILED -> <<>>
      [] OTHER -> <<>>

\* a transition check that lets FAILED through from every state
CanTransitionTo_FailedAlways(cur, new_state) ==
    new_state = FAILED \/ In(new_state, AllowedTransitions(cur))

\* AgenticState.can_transition_to
CanTransitionTo(cur, new_state) == In(new_state, AllowedTransitions(cur))

\* a stamp that treats both terminal states alike
StampCompleted_AnyTerminal(new_state, old, now) ==
    IF new_state \in {COMPLETE, FAILED} THEN now ELSE old

\* AgenticState.transition_to: the completed_at it leaves after a successful
\* transition to new_state
StampCompleted(new_state, old, now) ==
    IF new_state = COMPLETE THEN now ELSE old

\* AgenticState.transition_to: the state it leaves
StateAfter(cur, new_state) ==
    IF CanTransitionTo(cur, new_state) THEN new_state ELSE cur

CompletedAfter(cur, new_state, old, now) ==
    IF CanTransitionTo(cur, new_state) THEN StampCompleted(new_state, old, now) ELSE old

\* a file path: what os.path.splitext splits it into
Path(base, ext) == [base |-> base, ext |-> ext]

NoFault == [kind |-> "none", at |-> "none"]
NoCall == [op |-> "none", from |-> INIT, target |-> INIT, ret |-> FALSE]

\* ------------------------------------------------------------ Init
\* AgenticBookGenerator.__init__: self.state = AgenticState(), a new AuthorAgent
InitGenerator ==
    /\ current_state = INIT
    /\ completed_at = None
    /\ errors = <<>>
    /\ max_repair_iterations = 3
    /\ chapters_written = 0
    /\ chapters_reviewed = 0
    /\ repair_iterations = 0
    /\ review_results = <<>>
    /\ blueprint = None
    /\ output_path = Path("", "")
    /\ pc = "idle"
    /\ outcome = "none"
    /\ repair_iteration = 0
    /\ book = None
    /\ index = 0
    /\ clock = 0
    /\ reported = <<>>
    /\ entered = <<INIT>>
    /\ fault = NoFault
    /\ repairPasses = 0
    /\ reviewPasses = 0
    /\ allFailed = TRUE
    /\ written = None
    /\ happy = INIT
    /\ run = 0
    /\ previous = None
    /\ introduced_concepts = {}

\* no direct call has been made
Init == InitGenerator /\ lastCall = NoCall

\* ------------------------------------------- direct calls (StateSpec)
\* the call sequences of TestFullLifecycle: the next target after each one
HappyNext(s) ==
    CASE s = INIT -> {INTERPRET}
      [] s = INTERPRET -> {PLAN}
      [] s = PLAN -> {WRITE}
      [] s = WRITE -> {REVIEW}
      [] s = REVIEW -> {REPAIR, FORMAT}
      [] s = REPAIR -> {REVIEW}
      [] s = FORMAT -> {EXPORT}
      [] s = EXPORT -> {COMPLETE}
      [] OTHER -> {}

\* state.can_transition_to(t)
CallCanTransitionTo(t) ==
    /\ pc = "idle"
    /\ lastCall' = [op |-> "can_transition_to", from |-> current_state,
                    target |-> t, ret |-> CanTransitionTo(current_state, t)]
    /\ UNCHANGED <<stateVars, runVars, obsVars, happy, clock, genVars>>

\* state.transition_to(t)
CallTransitionTo(t) ==
    /\ pc = "idle"
    /\ clock < MaxCalls
    /\ clock' = clock + 1
    /\ current_state' = StateAfter(current_state, t)
    /\ completed_at' = CompletedAfter(current_state, t, completed_at, Some(clock'))
    /\ lastCall' = [op |-> "transition_to", from |-> current_state,
                    target |-> t, ret |-> CanTransitionTo(current_state, t)]
    /\ happy' = IF happy # "off" /\ t \in HappyNext(happy) THEN t ELSE "off"
    /\ UNCHANGED <<errors, max_repair_iterations, chapters_written,
                   chapters_reviewed, repair_iterations, review_results,
                   blueprint, output_path, runVars, obsVars, genVars>>

StateNext ==
    \/ \E t \in LifecycleState : CallCanTransitionTo(t)
    \/ \E t \in LifecycleState : CallTransitionTo(t)

StateSpec == Init /\ [][StateNext]_vars

\* ------------------------------------------------ direct calls of the agents
\* what a direct call of an agent method leaves alone: all but lastCall
restVars == <<stateVars, runVars, obsVars, happy, genVars, clock>>

\* the sequences over S of length at most n
SeqsUpTo(S, n) == UNION {[1..k -> S] : k \in 0..n}

\* a text is the number of its whitespace-separated words and whether whitespace
\* surrounds them ("" is Text(0, FALSE), "  " is Text(0, TRUE))
Text(words, pad) == [words |-> words, pad |-> pad]
Empty == Text(0, FALSE)

\* a truth test that every str passes
Truthy_Any(text) == TRUE

\* `if text:` of a str
Truthy(text) == text.words > 0 \/ text.pad

\* len(text.split())
SplitLen(text) == text.words

\* a strip that leaves the whitespace
Strip_Keep(text) == text

\* text.strip()
Strip(text) == Text(text.words, FALSE)

\* ------------------------------------------- EditorAgent (EditorSpec)
MaxWords == 4
MaxTarget == 10
MaxSections == 2
MaxIssues == 2

\* the texts of a reviewed chapter: "", "  ", and 1..MaxWords words
ReviewTexts == {Empty, Text(0, TRUE)} \cup {Text(n, FALSE) : n \in 1..MaxWords}

\* _check_length, lines 240-242: the words of the sections that have content
RECURSIVE SectionWords(_)
SectionWords(sections) ==
    IF sections = <<>> THEN 0
    ELSE (IF Truthy(Head(sections)) THEN SplitLen(Head(sections)) ELSE 0)
         + SectionWords(Tail(sections))

\* _check_length, lines 235-245: word_count
WordCount(chapter) ==
    (IF Truthy(chapter.introduction) THEN SplitLen(chapter.introduction) ELSE 0)
    + SectionWords(chapter.sections)
    + (IF Truthy(chapter.summary) THEN SplitLen(chapter.summary) ELSE 0)

\* the largest power of two that is at most k, for k >= 1
Pow2Below(k) == CHOOSE p \in {2 ^ e : e \in 0..20} : p <= k /\ k < 2 * p

\* int(target_length * 0.7) in IEEE-754 doubles: the double 0.7 is below 7/10 by
\* 0.4 * 2^-53, so when 7T/10 is an integer K the product rounds to the double
\* below K exactly when 4K > 7 * Pow2Below(K), and int() then gives K - 1;
\* otherwise the result is the floor of 7T/10
MinLength(target_length) ==
    LET K == (7 * target_length) \div 10
    IN IF (7 * target_length) % 10 = 0 /\ K > 0 /\ 4 * K > 7 * Pow2Below(K)
       THEN K - 1 ELSE K

\* int(target_length * 1.3): the double 1.3 is above 13/10, the product never
\* rounds below an integer 13T/10, so the result is the floor of 13T/10
MaxLength(target_length) == (13 * target_length) \div 10

\* an issue is the set of markers its text holds and the case it is written in
Issue(markers, upper) == [markers |-> markers, upper |-> upper]

\* EditorAgent._check_length
CheckLength(chapter, target_length) ==
    LET word_count == WordCount(chapter)
    IN IF word_count < MinLength(target_length)
       THEN <<Issue({"too short"}, FALSE)>>
       ELSE IF word_count > MaxLength(target_length)
            THEN <<Issue({"too long"}, FALSE)>>
            ELSE <<>>

\* the thresholds of _expand_chapter and _compress_chapter
ExpandBelow == 300
CompressAbove == 600

\* the section contents of a chapter under repair, and the texts the generation
\* call answers with: "", "  " and 450 words followed by a newline
RepairTexts ==
    {Empty} \cup {Text(n, FALSE) :
                     n \in {1, ExpandBelow - 1, ExpandBelow, CompressAbove, CompressAbove + 1}}
Responses == {Empty, Text(0, TRUE), Text(450, TRUE)}

\* EditorAgent._expand_chapter; resp[i] is what the generation call answers for
\* section i
ExpandChapter(sections, resp) ==
    [i \in 1..Len(sections) |->
        IF Truthy(sections[i]) /\ SplitLen(sections[i]) < ExpandBelow
        THEN Strip(resp[i]) ELSE sections[i]]

\* EditorAgent._compress_chapter
CompressChapter(sections, resp) ==
    [i \in 1..Len(sections) |->
        IF Truthy(sections[i]) /\ SplitLen(sections[i]) > CompressAbove
        THEN Strip(resp[i]) ELSE sections[i]]

\* EditorAgent._adjust_complexity
AdjustComplexity(sections, resp) ==
    [i \in 1..Len(sections) |->
        IF Truthy(sections[i]) THEN Strip(resp[i]) ELSE sections[i]]

\* EditorAgent._improve_coherence
ImproveCoherence(sections, resp) ==
    [i \in 1..Len(sections) |->
        IF i > 1 /\ Truthy(sections[i]) THEN Strip(resp[i]) ELSE sections[i]]

Strategies == {"expand", "compress", "adjust_complexity", "improve_coherence"}

ApplyStrategy(strategy, sections, resp) ==
    CASE strategy = "expand" -> ExpandChapter(sections, resp)
      [] strategy = "compress" -> CompressChapter(sections, resp)
      [] strategy = "adjust_complexity" -> AdjustComplexity(sections, resp)
      [] strategy = "improve_coherence" -> ImproveCoherence(sections, resp)
      [] OTHER -> sections

Markers == {"too short", "too long", "complexity", "coherence", "contradiction"}

\* a lower() that leaves the case
Lower_Keep(issue) == issue

\* issue.lower()
Lower(issue) == Issue(issue.markers, FALSE)

\* marker in text, for a lower-case marker
Contains(text, marker) == ~text.upper /\ marker \in text.markers

\* repair_chapter, lines 385-390: the branch an issue takes
IssueStrategy(issue) ==
    IF Contains(Lower(issue), "too short") THEN "expand"
    ELSE IF Contains(Lower(issue), "too long") THEN "compress"
    ELSE IF Contains(Lower(issue), "complexity") THEN "adjust_complexity"
    ELSE "none"

\* repair_chapter, lines 384-390: the loop over the issues; applied is the list
\* of the strategy calls made
RECURSIVE RepairIssues(_, _, _, _)
RepairIssues(sections, applied, issues, resp) ==
    IF issues = <<>> THEN [sections |-> sections, applied |-> applied]
    ELSE LET strategy == IssueStrategy(Head(issues))
         IN IF strategy = "none"
            THEN RepairIssues(sections, applied, Tail(issues), resp)
            ELSE RepairIssues(ApplyStrategy(strategy, sections, resp),
                              Append(applied, strategy), Tail(issues), resp)

\* EditorAgent.repair_chapter
EditorRepairChapter(sections, issues, resp) ==
    LET looped == RepairIssues(sections, <<>>, issues, resp)
    IN IF \E i \in 1..Len(issues) :
              \/ Contains(Lower(issues[i]), "coherence")
              \/ Contains(Lower(issues[i]), "contradiction")
       THEN [sections |-> ImproveCoherence(looped.sections, resp),
             applied |-> Append(looped.applied, "improve_coherence")]
       ELSE looped

\* the chapters repair_chapter is called with, and the issue texts
RepairChapters ==
    {<<Text(ExpandBelow - 1, FALSE), Text(CompressAbove + 1, FALSE)>>,
     <<Text(ExpandBelow, FALSE)>>}
IssueTexts == {Issue(markers, upper) : markers \in SUBSET Markers, upper \in BOOLEAN}

\* the direct calls of the editor's methods, before they return
CheckLengthCalls ==
    {[op |-> "_check_length",
      chapter |-> [introduction |-> introduction, sections |-> sections,
                   summary |-> summary],
      target_length |-> target_length, ret |-> None] :
        introduction \in ReviewTexts, summary \in ReviewTexts,
        sections \in SeqsUpTo(ReviewTexts, MaxSections),
        target_length \in 0..MaxTarget}

StrategyCalls ==
    UNION {{[op |-> strategy, sections |-> sections, resp |-> resp, ret |-> None] :
               strategy \in Strategies, resp \in [1..Len(sections) -> Responses]} :
           sections \in SeqsUpTo(RepairTexts, MaxSections)}

RepairChapterCalls ==
    {[op |-> "repair_chapter", sections |-> sections, issues |-> issues,
      resp |-> [i \in 1..Len(sections) |-> Text(450, TRUE)], ret |-> None] :
        sections \in RepairChapters, issues \in SeqsUpTo(IssueTexts, MaxIssues)}

\* a generator and an editor, and one method of the editor called
EditorInit ==
    /\ InitGenerator
    /\ \/ lastCall \in CheckLengthCalls
       \/ lastCall \in StrategyCalls
       \/ lastCall \in RepairChapterCalls

\* editor._check_length(chapter, target_length) returns
CallCheckLength ==
    /\ lastCall.op = "_check_length"
    /\ lastCall.ret = None
    /\ lastCall' = [lastCall EXCEPT
                       !.ret = Some(CheckLength(lastCall.chapter, lastCall.target_length))]
    /\ UNCHANGED restVars

\* one of the four repair strategies, called on a chapter, returns
CallStrategy ==
    /\ lastCall.op \in Strategies
    /\ lastCall.ret = None
    /\ lastCall' = [lastCall EXCEPT
                       !.ret = Some(ApplyStrategy(lastCall.op, lastCall.sections,
                                                  lastCall.resp))]
    /\ UNCHANGED restVars

\* editor.repair_chapter(chapter, chapter_bp, blueprint, issues) returns
CallRepairChapter ==
    /\ lastCall.op = "repair_chapter"
    /\ lastCall.ret = None
    /\ lastCall' = [lastCall EXCEPT
                       !.ret = Some(EditorRepairChapter(lastCall.sections,
                                                        lastCall.issues, lastCall.resp))]
    /\ UNCHANGED restVars

\* the next repair iteration: a strategy is called on the chapter that the
\* strategy before it returned (the strategies change the chapter in place)
RepairAgain ==
    /\ lastCall.op \in Strategies
    /\ lastCall.ret # None
    /\ \E strategy \in Strategies, resp \in [1..Len(lastCall.sections) -> Responses] :
          lastCall' = [op |-> strategy, sections |-> lastCall.ret[1], resp |-> resp,
                       ret |-> None]
    /\ UNCHANGED restVars

EditorNext == CallCheckLength \/ CallStrategy \/ CallRepairChapter \/ RepairAgain

EditorSpec == EditorInit /\ [][EditorNext]_vars

\* ------------------------------------------ PlannerAgent (PlannerSpec)
MaxBookLength == 10
MaxItems == 3
MaxConcepts == 3
MaxKeywords == 2

\* ComplexityLevel
BEGINNER == "beginner"
INTERMEDIATE == "intermediate"
ADVANCED == "advanced"
EXPERT == "expert"
ComplexityLevel == {BEGINNER, INTERMEDIATE, ADVANCED, EXPERT}

\* a progression that steps down inside an ADVANCED book
GetChapterComplexity_StepDown(chapter_num, total_chapters, base_complexity) ==
    IF base_complexity = ADVANCED
    THEN IF 10 * chapter_num < 2 * total_chapters THEN INTERMEDIATE
         ELSE IF 10 * chapter_num < 5 * total_chapters THEN BEGINNER
         ELSE ADVANCED
    ELSE base_complexity

\* PlannerAgent._get_chapter_complexity; progress = chapter_num / total_chapters
\* is compared with 0.3, 0.2, 0.5, 0.6: for these sizes the comparison of the
\* doubles is the comparison of the fractions
GetChapterComplexity(chapter_num, total_chapters, base_complexity) ==
    CASE base_complexity = BEGINNER -> BEGINNER
      [] base_complexity = INTERMEDIATE ->
            IF 10 * chapter_num < 3 * total_chapters THEN BEGINNER
            ELSE INTERMEDIATE
      [] base_complexity = ADVANCED ->
            IF 10 * chapter_num < 2 * total_chapters THEN BEGINNER
            ELSE IF 10 * chapter_num < 5 * total_chapters THEN INTERMEDIATE
            ELSE ADVANCED
      [] OTHER ->
            IF 10 * chapter_num < 2 * total_chapters THEN INTERMEDIATE
            ELSE IF 10 * chapter_num < 6 * total_chapters THEN ADVANCED
            ELSE EXPERT

\* JSON null as a value of an object
JNull == "null"

\* the objects a response may hold: a dict of some of the fields topic and
\* complexity_level; "guru" is no ComplexityLevel
Dicts ==
    UNION {{d \in [D -> {"Rust", BEGINNER, EXPERT, "guru", "", JNull}] :
               /\ ("topic" \in D => d["topic"] = "Rust")
               /\ ("complexity_level" \in D => d["complexity_level"] # "Rust")} :
           D \in SUBSET {"topic", "complexity_level"}}

\* the texts the generation call of interpret_prompt may answer: kind says what
\* the text is, data is the object in it (if any), prose whether text surrounds it
InterpretKinds ==
    {"empty", "prose", "unbalanced", "malformed", "array", "null", "number", "string"}
InterpretResponses ==
    {[kind |-> kind, data |-> <<>>, prose |-> FALSE] : kind \in InterpretKinds}
    \cup {[kind |-> kind, data |-> d, prose |-> prose] :
             kind \in {"object", "array_of_objects"}, d \in Dicts, prose \in BOOLEAN}

\* _extract_json_object: the first balanced {...} of the text, decoded; None when
\* there is no brace, the braces do not balance, or the span is no JSON
ExtractJsonObject(response) ==
    IF response.kind \in {"object", "array_of_objects"}
    THEN Some(response.data) ELSE None

\* json.loads(response): the type of the value, or JSONDecodeError
JsonLoads(response) ==
    CASE response.kind \in {"empty", "prose", "unbalanced", "malformed"} ->
            [exc |-> "JSONDecodeError", type |-> "none", data |-> <<>>]
      [] response.kind \in {"object", "array_of_objects"} /\ response.prose ->
            [exc |-> "JSONDecodeError", type |-> "none", data |-> <<>>]
      [] response.kind = "object" -> [exc |-> "none", type |-> "dict", data |-> response.data]
      [] response.kind \in {"array", "array_of_objects"} ->
            [exc |-> "none", type |-> "list", data |-> <<>>]
      [] response.kind = "null" -> [exc |-> "none", type |-> "NoneType", data |-> <<>>]
      [] response.kind = "number" -> [exc |-> "none", type |-> "int", data |-> <<>>]
      [] OTHER -> [exc |-> "none", type |-> "str", data |-> <<>>]

\* dict.get(key, default)
Get(data, key, default) == IF key \in DOMAIN data THEN data[key] ELSE default

\* the truth value of data.get(key): None for a missing key or a null, "" are false
GetTruthy(data, key) == key \in DOMAIN data /\ data[key] \notin {"", JNull}

UserPromptOf(topic, audience, learning_outcome, complexity_level) ==
    [topic |-> topic, audience |-> audience, learning_outcome |-> learning_outcome,
     complexity_level |-> complexity_level]

\* UserPrompt.from_dict: data.get raises AttributeError on a value that is no
\* dict, ComplexityLevel(...) raises ValueError on an unknown level
FromDict(value) ==
    IF value.type # "dict"
    THEN [raised |-> "AttributeError", prompt |-> None]
    ELSE IF /\ GetTruthy(value.data, "complexity_level")
            /\ value.data["complexity_level"] \notin ComplexityLevel
         THEN [raised |-> "ValueError", prompt |-> None]
         ELSE [raised |-> "none",
               prompt |-> Some(UserPromptOf(
                   Get(value.data, "topic", ""), "", <<"">>,
                   IF GetTruthy(value.data, "complexity_level")
                   THEN Some(value.data["complexity_level"]) ELSE None))]

\* PlannerAgent.interpret_prompt, lines 153-169: what it returns or raises for
\* the text the generation call answered
PlannerInterpretPrompt(raw_prompt, response) ==
    LET extracted == ExtractJsonObject(response)
        value == IF extracted = None THEN JsonLoads(response)
                 ELSE [exc |-> "none", type |-> "dict", data |-> extracted[1]]
    IN IF value.exc = "JSONDecodeError"
       THEN [raised |-> "none",
             prompt |-> Some(UserPromptOf(raw_prompt, "general readers",
                                          <<"Understand ", raw_prompt>>, None))]
       ELSE FromDict(value)

\* the limit of the prerequisites and the default number of chapters
PrerequisiteLimit == 5
DefaultBookLength == 10

\* the texts the generation call of _generate_chapter_blueprints may answer:
\* whether an array is in the text, and its elements: objects with so many key
\* concepts, or values that are no objects
Items ==
    {[object |-> TRUE, concepts |-> n] : n \in 0..MaxConcepts}
    \cup {[object |-> FALSE, concepts |-> 0]}
ChapterResponses ==
    {[array |-> FALSE, items |-> <<>>]}
    \cup {[array |-> TRUE, items |-> items] : items \in SeqsUpTo(Items, MaxItems)}

\* _extract_json_array: the first balanced [...] of the text, decoded, or None
ExtractJsonArray(response) == IF response.array THEN Some(response.items) ELSE None

\* ch_data.get("key_concepts", []) of element i: its concepts, in order
ItemConcepts(i, item) == [j \in 1..item.concepts |-> <<i, j>>]

\* prerequisites[:5]
Prerequisites(all_concepts) ==
    SubSeq(all_concepts, 1,
           IF Len(all_concepts) < PrerequisiteLimit
           THEN Len(all_concepts) ELSE PrerequisiteLimit)

ChapterBlueprintOf(number, complexity_level, section_titles, key_concepts, prerequisites) ==
    [number |-> number, complexity_level |-> complexity_level,
     section_titles |-> section_titles,
     key_concepts |-> key_concepts, prerequisites |-> prerequisites]

\* ch_data.get("section_titles", []) of an element: the elements name no sections
ItemSections(item) == <<>>

\* line 383: the section titles of fallback chapter i
FallbackSections(i) == <<<<"Section ", i, ".1">>, <<"Section ", i, ".2">>, <<"Section ", i, ".3">>>>

\* _generate_chapter_blueprints, lines 351-372: the loop from element i on; it
\* stops with AttributeError at an element that has no get
RECURSIVE ChapterLoop(_, _, _, _, _, _)
ChapterLoop(data, i, num_chapters, complexity, all_concepts, chapters) ==
    IF i > Len(data) THEN [chapters |-> chapters, raised |-> FALSE]
    ELSE IF ~data[i].object THEN [chapters |-> chapters, raised |-> TRUE]
    ELSE ChapterLoop(data, i + 1, num_chapters, complexity,
                     all_concepts \o ItemConcepts(i, data[i]),
                     Append(chapters,
                            ChapterBlueprintOf(
                                i, GetChapterComplexity(i, num_chapters, complexity),
                                ItemSections(data[i]), ItemConcepts(i, data[i]),
                                Prerequisites(all_concepts))))

\* lines 376-384: the chapters of the fallback
FallbackChapters(num_chapters, complexity) ==
    [i \in 1..num_chapters |->
        ChapterBlueprintOf(i, complexity, FallbackSections(i), <<>>, <<>>)]

\* PlannerAgent._generate_chapter_blueprints, lines 345-386
GenerateChapterBlueprints(num_chapters, complexity, response) ==
    LET data == ExtractJsonArray(response)
    IN IF data # None /\ data[1] # <<>>
       THEN LET sliced == SubSeq(data[1], 1, IF num_chapters < Len(data[1])
                                             THEN num_chapters ELSE Len(data[1]))
                looped == ChapterLoop(sliced, 1, num_chapters, complexity, <<>>, <<>>)
            IN IF looped.raised
               THEN looped.chapters \o FallbackChapters(num_chapters, complexity)
               ELSE looped.chapters
       ELSE <<>>

\* an audience string: the keywords of _infer_complexity that occur in it when
\* case is ignored, and whether it is written in upper case
Audience(markers, upper) == [markers |-> markers, upper |-> upper]

\* the keyword lists of lines 244, 246 and 248
BeginnerWords == {"beginner", "new", "intro", "basic", "children", "kids"}
AdvancedWords == {"advanced", "senior", "expert", "professional"}
ExpertWords == {"expert", "specialist", "researcher"}

\* PlannerAgent._infer_complexity
InferComplexity(prompt) ==
    LET audience_lower == Lower(prompt.audience)
    IN IF \E word \in BeginnerWords : Contains(audience_lower, word) THEN BEGINNER
       ELSE IF \E word \in AdvancedWords : Contains(audience_lower, word) THEN ADVANCED
       ELSE IF \E word \in ExpertWords : Contains(audience_lower, word) THEN EXPERT
       ELSE INTERMEDIATE

\* PlannerAgent.create_blueprint, lines 181 and 189-213; a ComplexityLevel is
\* always true, so `or` infers only when the prompt names no level
CreateBlueprint(user_prompt, response) ==
    LET complexity == IF user_prompt.complexity_level # None
                      THEN user_prompt.complexity_level[1]
                      ELSE InferComplexity(user_prompt)
        num_chapters == IF user_prompt.book_length # None /\ user_prompt.book_length[1] # 0
                        THEN user_prompt.book_length[1] ELSE DefaultBookLength
        chapters == GenerateChapterBlueprints(num_chapters, complexity, response)
    IN [complexity_level |-> complexity, chapters |-> chapters,
        total_chapters |-> Len(chapters)]

\* the direct calls of the planner's methods, before they return
RawPrompts == {"Build me a book about Rust", ""}
InterpretPromptCalls ==
    {[op |-> "interpret_prompt", raw_prompt |-> raw_prompt, response |-> response,
      ret |-> None] : raw_prompt \in RawPrompts, response \in InterpretResponses}

GetChapterComplexityCalls ==
    {[op |-> "_get_chapter_complexity", total_chapters |-> total_chapters,
      base_complexity |-> base_complexity, ret |-> None] :
        total_chapters \in 1..MaxBookLength, base_complexity \in ComplexityLevel}

\* the audiences: at most MaxKeywords of the keywords, in lower or upper case
Audiences ==
    {Audience(markers, upper) :
        markers \in {M \in SUBSET (BeginnerWords \cup AdvancedWords \cup ExpertWords) :
                        Cardinality(M) <= MaxKeywords},
        upper \in BOOLEAN}

InferComplexityCalls ==
    {[op |-> "_infer_complexity", prompt |-> [audience |-> audience], ret |-> None] :
        audience \in Audiences}

CreateBlueprintCalls ==
    {[op |-> "create_blueprint",
      user_prompt |-> [audience |-> audience, complexity_level |-> complexity,
                       book_length |-> book_length],
      response |-> response, ret |-> None] :
        audience \in {Audience({}, FALSE), Audience({"expert"}, TRUE)},
        complexity \in {None} \cup {Some(level) : level \in ComplexityLevel},
        book_length \in {None} \cup {Some(n) : n \in 0..MaxItems},
        response \in ChapterResponses}

\* a planner, and one of its methods called
PlannerInit ==
    /\ InitGenerator
    /\ \/ lastCall \in InterpretPromptCalls
       \/ lastCall \in GetChapterComplexityCalls
       \/ lastCall \in InferComplexityCalls
       \/ lastCall \in CreateBlueprintCalls

\* planner.interpret_prompt(raw_prompt) returns or raises
CallInterpretPrompt ==
    /\ lastCall.op = "interpret_prompt"
    /\ lastCall.ret = None
    /\ lastCall' = [lastCall EXCEPT
                       !.ret = Some(PlannerInterpretPrompt(lastCall.raw_prompt,
                                                           lastCall.response))]
    /\ UNCHANGED restVars

\* planner._get_chapter_complexity(i, total_chapters, base_complexity) for the
\* chapters i = 1..total_chapters, as the chapter loop calls it
CallGetChapterComplexity ==
    /\ lastCall.op = "_get_chapter_complexity"
    /\ lastCall.ret = None
    /\ lastCall' = [lastCall EXCEPT
                       !.ret = Some([i \in 1..lastCall.total_chapters |->
                                        GetChapterComplexity(i, lastCall.total_chapters,
                                                             lastCall.base_complexity)])]
    /\ UNCHANGED restVars

\* planner._infer_complexity(prompt) returns
CallInferComplexity ==
    /\ lastCall.op = "_infer_complexity"
    /\ lastCall.ret = None
    /\ lastCall' = [lastCall EXCEPT !.ret = Some(InferComplexity(lastCall.prompt))]
    /\ UNCHANGED restVars

\* planner.create_blueprint(user_prompt) returns
CallCreateBlueprint ==
    /\ lastCall.op = "create_blueprint"
    /\ lastCall.ret = None
    /\ lastCall' = [lastCall EXCEPT
                       !.ret = Some(CreateBlueprint(lastCall.user_prompt,
                                                    lastCall.response))]
    /\ UNCHANGED restVars

PlannerNext ==
    \/ CallInterpretPrompt
    \/ CallGetChapterComplexity
    \/ CallInferComplexity
    \/ CallCreateBlueprint

PlannerSpec == PlannerInit /\ [][PlannerNext]_vars

\* ------------------------------------- blueprint serialisation (ModelsSpec)
MaxObjectives == 1
MaxBlueprintChapters == 1

\* ReviewStatus
ReviewStatus == {"pending", "passed", "failed", "needs_repair"}

\* LearningObjective
LearningObjectiveOf(description, chapter_number, bloom_level) ==
    [description |-> description, chapter_number |-> chapter_number,
     bloom_level |-> bloom_level]

\* the entry to_dict writes for a learning objective (lines 154 and 235)
ObjectiveToDict(obj) ==
    [description |-> obj.description, bloom_level |-> obj.bloom_level]

\* the LearningObjective from_dict builds from an entry (lines 167-170, 254-257):
\* chapter_number is left at its default
ObjectiveFromDict(obj) ==
    LearningObjectiveOf(Get(obj, "description", ""), None,
                        Get(obj, "bloom_level", "understand"))

\* Enum(value): the member with that value; the model has no ValueError because
\* to_dict writes values of members only
EnumOf(members, value) == CHOOSE member \in members : member = value

\* ChapterBlueprint.to_dict
ChapterToDict(chapter) ==
    [number |-> chapter.number,
     complexity_level |-> chapter.complexity_level,
     learning_objectives |->
         [k \in 1..Len(chapter.learning_objectives) |->
             ObjectiveToDict(chapter.learning_objectives[k])],
     review_status |-> chapter.review_status,
     review_notes |-> chapter.review_notes]

\* ChapterBlueprint.from_dict
ChapterFromDict(data) ==
    [number |-> Get(data, "number", 0),
     complexity_level |-> EnumOf(ComplexityLevel, Get(data, "complexity_level", INTERMEDIATE)),
     learning_objectives |->
         LET objs == Get(data, "learning_objectives", <<>>)
         IN [k \in 1..Len(objs) |-> ObjectiveFromDict(objs[k])],
     review_status |-> EnumOf(ReviewStatus, Get(data, "review_status", "pending")),
     review_notes |-> Get(data, "review_notes", <<>>)]

\* datetime.isoformat() and datetime.fromisoformat(): the text of an instant
Isoformat(instant) == <<"iso", instant>>
FromIsoformat(text) == text[2]

\* BookBlueprint.to_dict
BookBlueprintToDict(bp) ==
    [title |-> bp.title,
     complexity_level |-> bp.complexity_level,
     learning_objectives |->
         [k \in 1..Len(bp.learning_objectives) |->
             ObjectiveToDict(bp.learning_objectives[k])],
     chapters |-> [k \in 1..Len(bp.chapters) |-> ChapterToDict(bp.chapters[k])],
     total_chapters |-> bp.total_chapters,
     output_format |-> bp.output_format,
     created_at |-> Isoformat(bp.created_at)]

\* BookBlueprint.from_dict, decoding at the instant now
BookBlueprintFromDict(data, now) ==
    [title |-> Get(data, "title", ""),
     complexity_level |-> EnumOf(ComplexityLevel, Get(data, "complexity_level", INTERMEDIATE)),
     learning_objectives |->
         LET objs == Get(data, "learning_objectives", <<>>)
         IN [k \in 1..Len(objs) |-> ObjectiveFromDict(objs[k])],
     chapters |->
         LET chs == Get(data, "chapters", <<>>)
         IN [k \in 1..Len(chs) |-> ChapterFromDict(chs[k])],
     total_chapters |-> Get(data, "total_chapters", DefaultBookLength),
     output_format |-> Get(data, "output_format", "pdf"),
     created_at |-> IF "created_at" \in DOMAIN data
                    THEN FromIsoformat(data["created_at"]) ELSE now]

\* the blueprints that are encoded and decoded
Objectives ==
    {LearningObjectiveOf("objective", chapter_number, bloom_level) :
        chapter_number \in {None, Some(1)}, bloom_level \in {"understand", "apply"}}
ChapterBlueprints ==
    {[number |-> 1, complexity_level |-> BEGINNER,
      learning_objectives |-> objectives, review_status |-> review_status,
      review_notes |-> IF review_status = "pending" THEN <<>> ELSE <<"note">>] :
        objectives \in SeqsUpTo(Objectives, MaxObjectives),
        review_status \in ReviewStatus}
BookBlueprints ==
    {[title |-> "Mastering Rust", complexity_level |-> complexity_level,
      learning_objectives |-> objectives, chapters |-> chapters,
      total_chapters |-> Len(chapters), output_format |-> "epub",
      created_at |-> 1] :
        complexity_level \in {INTERMEDIATE, EXPERT},
        objectives \in SeqsUpTo(Objectives, MaxObjectives),
        chapters \in SeqsUpTo(ChapterBlueprints, MaxBlueprintChapters)}

\* a blueprint, about to be encoded
ModelsInit ==
    /\ InitGenerator
    /\ lastCall \in {[op |-> "round_trip", bp |-> bp, data |-> None, ret |-> None] :
                        bp \in BookBlueprints}

\* data = bp.to_dict()
CallToDict ==
    /\ lastCall.op = "round_trip"
    /\ lastCall.data = None
    /\ lastCall' = [lastCall EXCEPT !.data = Some(BookBlueprintToDict(lastCall.bp))]
    /\ UNCHANGED restVars

\* BookBlueprint.from_dict(data), one instant after the blueprint was created
CallFromDict ==
    /\ lastCall.op = "round_trip"
    /\ lastCall.data # None
    /\ lastCall.ret = None
    /\ lastCall' = [lastCall EXCEPT
                       !.ret = Some(BookBlueprintFromDict(lastCall.data[1],
                                                          lastCall.bp.created_at + 1))]
    /\ UNCHANGED restVars

ModelsNext == CallToDict \/ CallFromDict

ModelsSpec == ModelsInit /\ [][ModelsNext]_vars

\* ------------------------------------------ AuthorAgent (AuthorSpec)
\* the texts a generation call of _generate_code_example or _generate_exercise
\* may answer: the empty text, prose with no object, or an object with some keys
ObjectResponse(keys) == [kind |-> "object", keys |-> keys]
CodeResponses ==
    {[kind |-> "empty", keys |-> {}], [kind |-> "prose", keys |-> {}]}
    \cup {ObjectResponse(keys) :
             keys \in {{}, {"code", "language", "explanation"},
                       {"language", "explanation"}, {"code", "language"}}}
ExerciseResponses ==
    {[kind |-> "empty", keys |-> {}], [kind |-> "prose", keys |-> {}]}
    \cup {ObjectResponse(keys) :
             keys \in {{}, {"question", "answer", "hints"}, {"question"}, {"answer"}}}

\* author._extract_json_object: the keys of the first balanced {...} of the
\* text, or None
AuthorExtractJsonObject(response) ==
    IF response.kind = "object" THEN Some(response.keys) ELSE None

\* `if d:` of an Optional[dict]
TruthyDict(d) == d # None /\ d[1] # {}

\* AuthorAgent._generate_section, lines 223-251: what it raises, and the code
\* examples and exercises of the section it returns
GenerateSection(bp, code_response, exercise_response) ==
    LET wants_code == bp.include_code_examples /\ bp.programming_language
        code_example == AuthorExtractJsonObject(code_response)
        exercise == AuthorExtractJsonObject(exercise_response)
        adds_code == wants_code /\ TruthyDict(code_example)
        adds_exercise == bp.include_exercises /\ TruthyDict(exercise)
    IN IF adds_code /\ ~({"code", "language", "explanation"} \subseteq code_example[1])
       THEN [raised |-> "KeyError", code_examples |-> 0, exercises |-> 0]
       ELSE IF adds_exercise /\ "question" \notin exercise[1]
            THEN [raised |-> "KeyError", code_examples |-> IF adds_code THEN 1 ELSE 0,
                  exercises |-> 0]
            ELSE [raised |-> "none", code_examples |-> IF adds_code THEN 1 ELSE 0,
                  exercises |-> IF adds_exercise THEN 1 ELSE 0]

\* AuthorAgent._write_chapter, lines 146-164: the loop over the section titles
\* from title i on, then the summary; sections are those added to the chapter
RECURSIVE SectionLoop(_, _, _, _)
SectionLoop(bp, responses, i, sections) ==
    IF i > Len(responses)
    THEN [raised |-> "none", sections |-> sections, summary |-> TRUE]
    ELSE LET section == GenerateSection(bp, responses[i].code,
                                        responses[i].exercise)
         IN IF section.raised # "none"
            THEN [raised |-> section.raised, sections |-> sections, summary |-> FALSE]
            ELSE SectionLoop(bp, responses, i + 1, Append(sections, section))

\* AuthorAgent.write_chapter
AuthorWriteChapter(bp, responses) == SectionLoop(bp, responses, 1, <<>>)

\* the direct calls of write_chapter, before they return: the blueprint's
\* switches, and what the generation calls answer for each section title
WriteChapterCalls ==
    {[op |-> "write_chapter",
      blueprint |-> [include_code_examples |-> code, programming_language |-> code,
                     include_exercises |-> exercises],
      responses |-> responses, ret |-> None] :
        code \in BOOLEAN, exercises \in BOOLEAN,
        responses \in SeqsUpTo([code : CodeResponses, exercise : ExerciseResponses],
                               MaxSections)}

\* an author, and write_chapter called
AuthorInit ==
    /\ InitGenerator
    /\ lastCall \in WriteChapterCalls

\* author.write_chapter(chapter_bp, blueprint) returns or raises
CallWriteChapter ==
    /\ lastCall.op = "write_chapter"
    /\ lastCall.ret = None
    /\ lastCall' = [lastCall EXCEPT
                       !.ret = Some(AuthorWriteChapter(lastCall.blueprint,
                                                       lastCall.responses))]
    /\ UNCHANGED restVars

AuthorNext == CallWriteChapter

AuthorSpec == AuthorInit /\ [][AuthorNext]_vars

\* ------------------------------------------------------ FormatterAgent
\* FormatterAgent.__init__: the formatters; the Pandoc one when its import works
Formatters(pandoc) ==
    {"html", "pdf", "epub", "markdown"} \cup (IF pandoc THEN {"pdf-pandoc"} ELSE {})

\* _ensure_extension, lines 224-232: extensions.get(format_type, ".pdf")
ExpectedExtension(format_type) ==
    CASE format_type = "html" -> ".html"
      [] format_type = "pdf" -> ".pdf"
      [] format_type = "pdf-pandoc" -> ".pdf"
      [] format_type = "epub" -> ".epub"
      [] format_type = "markdown" -> ".md"
      [] OTHER -> ".pdf"

\* FormatterAgent._ensure_extension
EnsureExtension(path, format_type) ==
    IF path.ext = ExpectedExtension(format_type) THEN path
    ELSE Path(path.base, ExpectedExtension(format_type))

\* an export that writes the file at the path it is given
ExportedFile_AsGiven(path, format_type, formatters) == path

\* FormatterAgent._export: the path of the file the formatter writes
ExportedFile(path, format_type, formatters) ==
    IF format_type = "pdf-pandoc" THEN path
    ELSE IF format_type \in formatters THEN path
         ELSE Path(path.base, ".html")

\* FormatterAgent.format_book: the path it returns and the file it writes
FormatterFormatBook(path, output_format, blueprint_format, formatters) ==
    LET format_type == IF output_format # "" THEN output_format
                       ELSE IF blueprint_format # "" THEN blueprint_format
                       ELSE "pdf"
        ensured == EnsureExtension(path, format_type)
    IN [ret |-> ensured, written |-> ExportedFile(ensured, format_type, formatters)]

\* --------------------------------------- generate_from_prompt (Spec)
\* a progress percentage is the exact fraction <<numerator, denominator>>
Pct(n) == <<n, 1>>
PctLeq(a, b) == a[1] * b[2] <= b[1] * a[2]

\* _write_book: progress = 20 + (50 * (i / total_chapters))
WriteProgress(i, total_chapters) == <<20 * total_chapters + 50 * i, total_chapters>>

\* the values max_repair_iterations is called with
RepairLimits == (0 - 1)..MaxRepair

\* a review that needs repair only when every result failed
NeedsRepair_All(results) ==
    /\ Len(results) > 0
    /\ \A i \in 1..Len(results) : ~results[i].passed

\* a test that asks for a repair unless there are results and all of them passed
NeedsRepair_UnlessAllPassed(results) ==
    ~(Len(results) > 0 /\ \A i \in 1..Len(results) : results[i].passed)

\* _needs_repair
NeedsRepair(results) == \E i \in 1..Len(results) : ~results[i].passed

\* a loop test that is off by one
LoopCondition_OffByOne(results, iteration, limit) ==
    NeedsRepair(results) /\ iteration <= limit

\* the while condition of the repair loop
LoopCondition(results, iteration, limit) ==
    NeedsRepair(results) /\ iteration < limit

\* Book.get_chapter: the position of the first chapter with that number, 0 for None
GetChapter(chapters, number) ==
    IF \E i \in 1..Len(chapters) : chapters[i] = number
    THEN CHOOSE i \in 1..Len(chapters) :
            chapters[i] = number /\ \A j \in 1..(i - 1) : chapters[j] # number
    ELSE 0

\* --------------------------------- review and repair passes (PassSpec)
\* the chapter numbers of a list of chapters or chapter blueprints
Numbers(chapters) == [i \in 1..Len(chapters) |-> chapters[i].number]

\* the chapter numbers of the blueprints create_blueprint returns for at most
\* MaxChapters chapters asked: 1..n, or, when element k of the chapter array is
\* no object, 1..k-1 followed by the fallback chapters 1..N
Numberings ==
    {[i \in 1..n |-> i] : n \in 0..MaxChapters}
    \cup {[i \in 1..(k - 1) |-> i] \o [i \in 1..N |-> i] :
             k \in 2..MaxChapters, N \in 2..MaxChapters}

\* EditorAgent.review_chapter, lines 83-117: the result, from the lists of the
\* four checks
ReviewChapter(chapter_number, checks) ==
    LET all_issues == checks.coherence \o checks.complexity
                      \o checks.length \o checks.topic
    IN [passed |-> Len(all_issues) = 0, chapter_number |-> chapter_number,
        issues |-> all_issues]

\* EditorAgent.review_chapter, lines 119-124: the blueprint chapter after it
Reviewed(chapter_bp, result) ==
    [chapter_bp EXCEPT
        !.review_status = IF result.passed THEN "passed" ELSE "needs_repair",
        !.review_notes = result.issues]

\* EditorAgent._basic_review
BasicReview(chapter) ==
    [passed |-> /\ Truthy(chapter.introduction)
                /\ chapter.sections # <<>>
                /\ \A i \in 1..Len(chapter.sections) : Truthy(chapter.sections[i])
                /\ Truthy(chapter.summary),
     chapter_number |-> chapter.number,
     issues |-> (IF Truthy(chapter.introduction) THEN <<>> ELSE <<Issue({}, FALSE)>>)
                \o (IF chapter.sections # <<>> THEN <<>> ELSE <<Issue({}, FALSE)>>)
                \o [n \in 1..Cardinality({i \in 1..Len(chapter.sections) :
                                               ~Truthy(chapter.sections[i])}) |->
                       Issue({}, FALSE)]
                \o (IF Truthy(chapter.summary) THEN <<>> ELSE <<Issue({}, FALSE)>>)]

\* _review_book, lines 229-241: the loop from chapter i of the book on; checks[i]
\* is what the four checks find in chapter i
RECURSIVE ReviewLoop(_, _, _, _, _)
ReviewLoop(chapters, bp_chapters, checks, i, results) ==
    IF i > Len(chapters) THEN [results |-> results, bp_chapters |-> bp_chapters]
    ELSE LET k == GetChapter(Numbers(bp_chapters), chapters[i].number)
         IN IF k # 0
            THEN LET result == ReviewChapter(chapters[i].number, checks[i])
                 IN ReviewLoop(chapters,
                               [bp_chapters EXCEPT ![k] = Reviewed(@, result)],
                               checks, i + 1, Append(results, result))
            ELSE ReviewLoop(chapters, bp_chapters, checks, i + 1,
                            Append(results, BasicReview(chapters[i])))

\* a pass that reviews only the chapters whose blueprint chapter has not passed
ReviewBookPass_SkipPassed(chapters, bp_chapters, checks) ==
    LET open == SelectSeq(chapters,
                    LAMBDA chapter :
                        LET k == GetChapter(Numbers(bp_chapters), chapter.number)
                        IN k = 0 \/ bp_chapters[k].review_status # "passed")
        looped == ReviewLoop(open, bp_chapters, checks, 1, <<>>)
    IN [results |-> looped.results, bp_chapters |-> looped.bp_chapters,
        review_count |-> Len(looped.results)]

\* AgenticBookGenerator._review_book: the results, the blueprint chapters after
\* it, and the count stored in state.chapters_reviewed
ReviewBookPass(chapters, bp_chapters, checks) ==
    LET looped == ReviewLoop(chapters, bp_chapters, checks, 1, <<>>)
    IN [results |-> looped.results, bp_chapters |-> looped.bp_chapters,
        review_count |-> Len(looped.results)]

\* _repair_book, lines 259-288: the loop from result i on; calls are the
\* positions in the book of the chapters repair_chapter was called with
RECURSIVE RepairLoop(_, _, _, _, _, _)
RepairLoop(chapters, bp_chapters, results, i, calls, resp) ==
    IF i > Len(results) THEN [chapters |-> chapters, calls |-> calls]
    ELSE LET pos == GetChapter(Numbers(chapters), results[i].chapter_number)
             k == GetChapter(Numbers(bp_chapters), results[i].chapter_number)
         IN IF ~results[i].passed /\ pos # 0 /\ k # 0
            THEN LET repaired ==
                         [chapters[pos] EXCEPT
                             !.sections = EditorRepairChapter(@, results[i].issues,
                                                              resp).sections]
                 IN RepairLoop([chapters EXCEPT ![pos] = repaired], bp_chapters,
                               results, i + 1, Append(calls, pos), resp)
            ELSE RepairLoop(chapters, bp_chapters, results, i + 1, calls, resp)

\* AgenticBookGenerator._repair_book
RepairBookPass(chapters, bp_chapters, results, resp) ==
    RepairLoop(chapters, bp_chapters, results, 1, <<>>, resp)

\* what the four checks may find in a chapter
CheckLists ==
    [coherence : {<<>>, <<Issue({"coherence"}, FALSE)>>},
     complexity : {<<>>, <<Issue({"complexity"}, FALSE)>>},
     length : {<<>>, <<Issue({"too short"}, FALSE)>>, <<Issue({"too long"}, FALSE)>>},
     topic : {<<>>, <<Issue({}, FALSE)>>}]
NoIssues == [coherence |-> <<>>, complexity |-> <<>>, length |-> <<>>, topic |-> <<>>]
TooShort == [NoIssues EXCEPT !.length = <<Issue({"too short"}, FALSE)>>]
Incoherent == [NoIssues EXCEPT !.coherence = <<Issue({"coherence"}, FALSE)>>]

\* the book the author writes from a blueprint with these chapter numbers (one
\* section of ExpandBelow - 1 words each), and the blueprint's chapters with the
\* status an earlier pass left
WrittenChapters(numbers) ==
    [i \in 1..Len(numbers) |->
        [number |-> numbers[i], introduction |-> Text(1, FALSE),
         sections |-> <<Text(ExpandBelow - 1, FALSE)>>, summary |-> Text(1, FALSE)]]
PlannedChapters(numbers, status) ==
    [i \in 1..Len(numbers) |->
        [number |-> numbers[i], review_status |-> status,
         review_notes |-> IF status = "needs_repair"
                          THEN <<Issue({"too long"}, FALSE)>> ELSE <<>>]]

\* the direct calls, before they return
ReviewChapterCalls ==
    {[op |-> "review_chapter", chapter_number |-> number,
      chapter_bp |-> PlannedChapters(<<number>>, status)[1], checks |-> checks,
      ret |-> None] :
        number \in 1..MaxChapters, status \in {"pending", "needs_repair"},
        checks \in CheckLists}
ReviewBookCalls ==
    UNION {{[op |-> "_review_book", chapters |-> WrittenChapters(numbers),
             bp_chapters |-> PlannedChapters(numbers, status), checks |-> checks,
             ret |-> None] :
               status \in {"pending", "needs_repair"},
               checks \in [1..Len(numbers) -> {NoIssues, TooShort, Incoherent}]} :
           numbers \in Numberings}
RepairBookCalls ==
    UNION {{[op |-> "_repair_book", chapters |-> WrittenChapters(numbers),
             bp_chapters |-> PlannedChapters(numbers, "pending"),
             results |-> ReviewBookPass(WrittenChapters(numbers),
                                        PlannedChapters(numbers, "pending"),
                                        checks).results,
             ret |-> None] :
               checks \in [1..Len(numbers) -> {NoIssues, TooShort, Incoherent}]} :
           numbers \in Numberings}

\* a generator with a book and its blueprint, and a review or repair call made
PassInit ==
    /\ InitGenerator
    /\ \/ lastCall \in ReviewChapterCalls
       \/ lastCall \in ReviewBookCalls
       \/ lastCall \in RepairBookCalls

\* editor.review_chapter(chapter, chapter_bp, blueprint) returns
CallReviewChapter ==
    /\ lastCall.op = "review_chapter"
    /\ lastCall.ret = None
    /\ LET result == ReviewChapter(lastCall.chapter_number, lastCall.checks)
       IN lastCall' = [lastCall EXCEPT
                          !.ret = Some([result |-> result,
                                        chapter_bp |-> Reviewed(lastCall.chapter_bp,
                                                                result)])]
    /\ UNCHANGED restVars

\* self._review_book(book, blueprint) returns
CallReviewBook ==
    /\ lastCall.op = "_review_book"
    /\ lastCall.ret = None
    /\ lastCall' = [lastCall EXCEPT
                       !.ret = Some(ReviewBookPass(lastCall.chapters,
                                                   lastCall.bp_chapters,
                                                   lastCall.checks))]
    /\ UNCHANGED restVars

\* self._repair_book(book, blueprint, review_results) returns; the generation
\* calls of the strategies answer 450 words
CallRepairBook ==
    /\ lastCall.op = "_repair_book"
    /\ lastCall.ret = None
    /\ lastCall' = [lastCall EXCEPT
                       !.ret = Some(RepairBookPass(lastCall.chapters,
                                                   lastCall.bp_chapters,
                                                   lastCall.results,
                                                   <<Text(450, TRUE)>>))]
    /\ UNCHANGED restVars

PassNext == CallReviewChapter \/ CallReviewBook \/ CallRepairBook

PassSpec == PassInit /\ [][PassNext]_vars

dataVars == <<max_repair_iterations, chapters_written, chapters_reviewed,
              repair_iterations, review_results, blueprint, output_path, written,
              repair_iteration, book, index, reported, repairPasses,
              reviewPasses, allFailed>>

\* the step returned: go on at the next statement
Continue(next) ==
    /\ pc' = next
    /\ UNCHANGED <<current_state, completed_at, errors, entered, fault, outcome, clock>>

\* the except clause of generate_from_prompt: record str(e), transition_to(FAILED),
\* re-raise
Handler(msg) ==
    /\ errors' = Append(errors, msg)
    /\ clock' = clock + 1
    /\ current_state' = StateAfter(current_state, FAILED)
    /\ completed_at' = CompletedAfter(current_state, FAILED, completed_at, Some(clock'))
    /\ entered' = IF CanTransitionTo(current_state, FAILED)
                  THEN Append(entered, FAILED) ELSE entered
    /\ outcome' = "raised"
    /\ pc' = "done"

\* an external call (agent or progress callback) made inside the try block raises
Raise(kind) ==
    /\ fault' = [kind |-> kind, at |-> pc]
    /\ Handler(kind)

\* _transition(new_state)
Transition(at, new_state, next) ==
    /\ pc = at
    /\ IF CanTransitionTo(current_state, new_state)
       THEN /\ clock' = clock + 1
            /\ current_state' = StateAfter(current_state, new_state)
            /\ completed_at' = CompletedAfter(current_state, new_state,
                                              completed_at, Some(clock'))
            /\ entered' = Append(entered, new_state)
            /\ pc' = next
            /\ UNCHANGED <<errors, fault, outcome>>
       ELSE /\ Handler("Invalid state transition")
            /\ UNCHANGED fault
    /\ UNCHANGED <<dataVars, callVars, genVars>>

\* _report_progress(message, percent) inside the try block
Report(at, percent, next) ==
    /\ pc = at
    /\ reported' = Append(reported, percent)
    /\ \/ Continue(next)
       \/ Raise("callback")
    /\ UNCHANGED <<max_repair_iterations, chapters_written, chapters_reviewed,
                   repair_iterations, review_results, blueprint, output_path, written,
                   repair_iteration, book, index, repairPasses, reviewPasses,
                   allFailed, callVars, genVars>>

\* generate_from_prompt is entered, on a new generator or after an earlier run
\* has ended: the locals and the observations of the run start afresh
StartRun ==
    /\ pc \in {"idle", "done"}
    /\ lastCall = NoCall
    /\ run < MaxRuns
    /\ run' = run + 1
    /\ previous' = Some([current_state |-> current_state, errors |-> errors,
                         had_concepts |-> introduced_concepts # {}])
    /\ pc' = "report_start"
    /\ outcome' = "none"
    /\ repair_iteration' = 0
    /\ book' = None
    /\ index' = 0
    /\ reported' = <<>>
    /\ entered' = <<INIT>>
    /\ fault' = NoFault
    /\ repairPasses' = 0
    /\ reviewPasses' = 0
    /\ allFailed' = TRUE
    /\ written' = None
    /\ clock' = 0
    /\ UNCHANGED <<callVars, introduced_concepts>>

\* a run that goes on with the AgenticState object of the run before
Start_SameState(limit) ==
    /\ StartRun
    /\ max_repair_iterations' = limit
    /\ output_path' = Path("output/book", "")
    /\ UNCHANGED <<current_state, completed_at, errors, chapters_written,
                   chapters_reviewed, repair_iterations, review_results, blueprint>>

\* lines 88-92: a new AgenticState for the run
Start(limit) ==
    /\ StartRun
    /\ current_state' = INIT
    /\ completed_at' = None
    /\ errors' = <<>>
    /\ max_repair_iterations' = limit
    /\ chapters_written' = 0
    /\ chapters_reviewed' = 0
    /\ repair_iterations' = 0
    /\ review_results' = <<>>
    /\ blueprint' = None
    /\ output_path' = Path("output/book", "")

\* line 94: the 0% report, before the try block: an exception of the callback
\* leaves generate_from_prompt with no handler run
ReportStart ==
    /\ pc = "report_start"
    /\ reported' = Append(reported, Pct(0))
    /\ \/ /\ pc' = "transition_interpret"
          /\ UNCHANGED <<fault, outcome>>
       \/ /\ fault' = [kind |-> "callback", at |-> pc]
          /\ outcome' = "raised"
          /\ pc' = "done"
    /\ UNCHANGED <<stateVars, repair_iteration, book, index, entered, repairPasses,
                   reviewPasses, allFailed, written, callVars, genVars, clock>>

\* Phase 1, lines 98-101
TransitionInterpret == Transition("transition_interpret", INTERPRET, "report_interpret")
ReportInterpret == Report("report_interpret", Pct(5), "interpret_prompt")
InterpretPrompt ==
    /\ pc = "interpret_prompt"
    /\ \/ Continue("transition_plan")
       \/ Raise("agent")
    /\ UNCHANGED <<dataVars, callVars, genVars>>

\* the topics of the books asked for
Topics == {"rust", "go"}

\* the interpreted prompts: a topic with the output_format asked for (a
\* supported tag, a tag with no formatter, the empty string)
Prompts ==
    {[topic |-> "rust", output_format |-> "html"],
     [topic |-> "go", output_format |-> "docx"],
     [topic |-> "go", output_format |-> ""]}

\* the key_concepts the chapter-design response gives chapter number of a book
\* on topic
KeyConcepts(topic, number) == {<<topic, number>>}

\* the BookBlueprint create_blueprint returns for a chapter array of n objects:
\* chapters 1..n, not yet reviewed
PlannedBlueprint(n, topic, output_format, now) ==
    [title |-> <<"Mastering ", topic>>,
     complexity_level |-> INTERMEDIATE,
     learning_objectives |-> <<LearningObjectiveOf("objective", None, "understand")>>,
     chapters |-> [i \in 1..n |->
                      [number |-> i, complexity_level |-> INTERMEDIATE,
                       learning_objectives |-> <<>>,
                       key_concepts |-> KeyConcepts(topic, i),
                       review_status |-> "pending", review_notes |-> <<>>]],
     total_chapters |-> n,
     output_format |-> output_format,
     created_at |-> now]

\* Phase 2, lines 104-107: the planner returns a blueprint with n chapters,
\* numbered 1..n
TransitionPlan == Transition("transition_plan", PLAN, "report_plan")
ReportPlan == Report("report_plan", Pct(10), "plan_book")
PlanBook ==
    /\ pc = "plan_book"
    /\ \/ /\ \E n \in 0..MaxChapters, prompt \in Prompts :
                blueprint' = Some(PlannedBlueprint(n, prompt.topic,
                                                   prompt.output_format, clock))
          /\ Continue("transition_write")
       \/ /\ Raise("agent")
          /\ UNCHANGED blueprint
    /\ UNCHANGED <<max_repair_iterations, chapters_written, chapters_reviewed,
                   repair_iterations, review_results, output_path, written,
                   repair_iteration, book, index, reported, repairPasses,
                   reviewPasses, allFailed, callVars, genVars>>

\* Phase 3, lines 110-112 and _write_book
TransitionWrite == Transition("transition_write", WRITE, "report_write")
ReportWrite == Report("report_write", Pct(20), "write_book")
\* a reset that leaves the set as it is
ResetConceptTracking_Keep(concepts) == concepts

\* AuthorAgent.reset_concept_tracking
ResetConceptTracking(concepts) == {}

\* AuthorAgent._write_chapter, line 167: _introduced_concepts.update(key_concepts)
TrackConcepts(concepts, key_concepts) == concepts \cup key_concepts

\* lines 190-202: the concept tracking is reset, then a new Book and the preface
WriteBookEnter ==
    /\ pc = "write_book"
    /\ introduced_concepts' = ResetConceptTracking(introduced_concepts)
    /\ \/ /\ book' = Some([chapters |-> <<>>, metadata |-> {}, metadata_blueprint |-> None])
          /\ index' = 0
          /\ Continue("write_chapter")
       \/ /\ Raise("agent")
          /\ UNCHANGED <<book, index>>
    /\ UNCHANGED <<max_repair_iterations, chapters_written, chapters_reviewed,
                   repair_iterations, review_results, blueprint, output_path, written,
                   repair_iteration, reported, repairPasses, reviewPasses,
                   allFailed, callVars, run, previous>>

\* lines 205-210: an iteration of the chapter loop starts with its progress report
WriteChapter ==
    /\ pc = "write_chapter"
    /\ index < Len(blueprint[1].chapters)
    /\ reported' = Append(reported, WriteProgress(index, Len(blueprint[1].chapters)))
    /\ \/ Continue("author_write_chapter")
       \/ Raise("callback")
    /\ UNCHANGED <<max_repair_iterations, chapters_written, chapters_reviewed,
                   repair_iterations, review_results, blueprint, output_path, written,
                   repair_iteration, book, index, repairPasses, reviewPasses,
                   allFailed, callVars, genVars>>

\* AuthorAgent._write_chapter, lines 141-164: the generation calls of the chapter
\* (introduction, each section, summary)
AuthorGenerate ==
    /\ pc = "author_write_chapter"
    /\ \/ Continue("track_concepts")
       \/ Raise("agent")
    /\ UNCHANGED <<dataVars, callVars, genVars>>

\* AuthorAgent._write_chapter, lines 166-169, and lines 213-214 of _write_book:
\* the concepts of the chapter are tracked, the chapter joins the book
AuthorTrack ==
    /\ pc = "track_concepts"
    /\ introduced_concepts' =
           TrackConcepts(introduced_concepts,
                         blueprint[1].chapters[index + 1].key_concepts)
    /\ book' = Some([book[1] EXCEPT
                        !.chapters = Append(@, blueprint[1].chapters[index + 1].number)])
    /\ chapters_written' = index + 1
    /\ index' = index + 1
    /\ Continue("write_chapter")
    /\ UNCHANGED <<max_repair_iterations, chapters_reviewed, repair_iterations,
                   review_results, blueprint, output_path, written, repair_iteration,
                   reported, repairPasses, reviewPasses, allFailed, callVars,
                   run, previous>>

\* lines 216-219: the loop is over; blueprint.to_dict() goes into the metadata
WriteBookReturn ==
    /\ pc = "write_chapter"
    /\ index >= Len(blueprint[1].chapters)
    /\ book' = Some([book[1] EXCEPT
                        !.metadata = @ \cup {"blueprint"},
                        !.metadata_blueprint = Some(BookBlueprintToDict(blueprint[1]))])
    /\ Continue("transition_review")
    /\ UNCHANGED <<max_repair_iterations, chapters_written, chapters_reviewed,
                   repair_iterations, review_results, blueprint, output_path, written,
                   repair_iteration, index, reported, repairPasses, reviewPasses,
                   allFailed, callVars, genVars>>

\* lines 117-118 and 131-133: a review pass (the checks find nothing in a
\* chapter, or find it too short) and what the caller stores
ReviewPass(at, next, iteration) ==
    /\ pc = at
    /\ \/ /\ \E checks \in [1..Len(book[1].chapters) -> {NoIssues, TooShort}] :
                LET pass == ReviewBookPass(WrittenChapters(book[1].chapters),
                                           blueprint[1].chapters, checks)
                IN /\ review_results' = pass.results
                   /\ chapters_reviewed' = pass.review_count
                   /\ blueprint' = Some([blueprint[1] EXCEPT
                                            !.chapters = pass.bp_chapters])
          /\ repair_iteration' = iteration
          /\ reviewPasses' = reviewPasses + 1
          /\ allFailed' = (allFailed /\ NeedsRepair(review_results'))
          /\ Continue(next)
       \/ /\ Raise("agent")
          /\ UNCHANGED <<review_results, chapters_reviewed, blueprint,
                         repair_iteration, reviewPasses, allFailed>>
    /\ UNCHANGED <<max_repair_iterations, chapters_written, repair_iterations,
                   output_path, written, book, index, reported, repairPasses,
                   callVars, genVars>>

\* Phase 4, lines 115-121
TransitionReview == Transition("transition_review", REVIEW, "report_review")
ReportReview == Report("report_review", Pct(70), "review_book")
ReviewBook == ReviewPass("review_book", "repair_loop", 0)

\* line 122: the loop is entered
RepairLoopEnter ==
    /\ pc = "repair_loop"
    /\ LoopCondition(review_results, repair_iteration, max_repair_iterations)
    /\ Continue("transition_repair")
    /\ UNCHANGED <<dataVars, callVars, genVars>>

\* lines 122, 136-141: the loop is left, and the book of a review that still fails
\* is marked
RepairLoopExit ==
    /\ pc = "repair_loop"
    /\ ~LoopCondition(review_results, repair_iteration, max_repair_iterations)
    /\ book' = IF NeedsRepair(review_results)
               THEN Some([book[1] EXCEPT !.metadata = @ \cup {"unresolved_review_issues"}])
               ELSE book
    /\ Continue("transition_format")
    /\ UNCHANGED <<max_repair_iterations, chapters_written, chapters_reviewed,
                   repair_iterations, review_results, blueprint, output_path, written,
                   repair_iteration, index, reported, repairPasses, reviewPasses,
                   allFailed, callVars, genVars>>

\* Phase 5, lines 123-125
TransitionRepair == Transition("transition_repair", REPAIR, "report_repair")
ReportRepair == Report("report_repair", Pct(75), "repair_enter")
\* _repair_book starts on the first result
RepairBookEnter ==
    /\ pc = "repair_enter"
    /\ index' = 1
    /\ repairPasses' = repairPasses + 1
    /\ Continue("repair_book")
    /\ UNCHANGED <<max_repair_iterations, chapters_written, chapters_reviewed,
                   repair_iterations, review_results, blueprint, output_path, written,
                   repair_iteration, book, reported, reviewPasses, allFailed,
                   callVars, genVars>>

\* lines 260-261: a result that passed is skipped
RepairSkip ==
    /\ pc = "repair_book"
    /\ index <= Len(review_results)
    /\ review_results[index].passed
    /\ index' = index + 1
    /\ Continue("repair_book")
    /\ UNCHANGED <<max_repair_iterations, chapters_written, chapters_reviewed,
                   repair_iterations, review_results, blueprint, output_path, written,
                   repair_iteration, book, reported, repairPasses, reviewPasses,
                   allFailed, callVars, genVars>>

\* lines 261-288: a failing result: the 75% report, repair_chapter, and the
\* repaired chapter put back at the position of its number
RepairChapter ==
    /\ pc = "repair_book"
    /\ index <= Len(review_results)
    /\ ~review_results[index].passed
    /\ LET number == review_results[index].chapter_number
           found == /\ GetChapter(book[1].chapters, number) # 0
                    /\ In(number, Numbers(blueprint[1].chapters))
       IN IF found
          THEN /\ reported' = Append(reported, Pct(75))
               /\ \/ /\ index' = index + 1
                     /\ Continue("repair_book")
                  \/ /\ \E kind \in {"callback", "agent"} : Raise(kind)
                     /\ UNCHANGED index
          ELSE /\ index' = index + 1
               /\ Continue("repair_book")
               /\ UNCHANGED reported
    /\ UNCHANGED <<max_repair_iterations, chapters_written, chapters_reviewed,
                   repair_iterations, review_results, blueprint, output_path, written,
                   repair_iteration, book, repairPasses, reviewPasses, allFailed,
                   callVars, genVars>>

\* lines 290 and 126: _repair_book returns
RepairBookReturn ==
    /\ pc = "repair_book"
    /\ index > Len(review_results)
    /\ repair_iterations' = repair_iteration + 1
    /\ Continue("transition_rereview")
    /\ UNCHANGED <<max_repair_iterations, chapters_written, chapters_reviewed,
                   review_results, blueprint, output_path, written, repair_iteration, book,
                   index, reported, repairPasses, reviewPasses, allFailed, callVars, genVars>>

\* lines 129-133
TransitionReReview == Transition("transition_rereview", REVIEW, "report_rereview")
ReportReReview == Report("report_rereview", Pct(80), "rereview_book")
ReReviewBook == ReviewPass("rereview_book", "repair_loop", repair_iteration + 1)

\* Phase 6, lines 144-146
TransitionFormat == Transition("transition_format", FORMAT, "report_format")
ReportFormat == Report("report_format", Pct(85), "format_book")
FormatBook ==
    /\ pc = "format_book"
    /\ \/ /\ book' = Some([book[1] EXCEPT !.metadata =
                        @ \cup {"learning_objectives", "assumed_prior_knowledge"}])
          /\ Continue("transition_export")
       \/ /\ Raise("agent")
          /\ UNCHANGED book
    /\ UNCHANGED <<max_repair_iterations, chapters_written, chapters_reviewed,
                   repair_iterations, review_results, blueprint, output_path, written,
                   repair_iteration, index, reported, repairPasses, reviewPasses,
                   allFailed, callVars, genVars>>

\* Phase 7, lines 149-152
TransitionExport == Transition("transition_export", EXPORT, "report_export")
ReportExport == Report("report_export", Pct(90), "export_book")
\* _export_book: formatter.format_book with the blueprint's output_format (the
\* books are on a programming language: the glossary is added), and line 152
ExportBook ==
    /\ pc = "export_book"
    /\ \/ /\ \E pandoc \in BOOLEAN :
                LET exported == FormatterFormatBook(output_path,
                                                    blueprint[1].output_format,
                                                    blueprint[1].output_format,
                                                    Formatters(pandoc))
                IN /\ output_path' = exported.ret
                   /\ written' = Some(exported.written)
          /\ book' = Some([book[1] EXCEPT !.metadata =
                              @ \cup {"table_of_contents", "glossary", "index"}])
          /\ Continue("transition_complete")
       \/ /\ Raise("agent")
          /\ UNCHANGED <<output_path, written, book>>
    /\ UNCHANGED <<max_repair_iterations, chapters_written, chapters_reviewed,
                   repair_iterations, review_results, blueprint, repair_iteration,
                   index, reported, repairPasses, reviewPasses, allFailed,
                   callVars, genVars>>

\* Phase 8, lines 155-158
TransitionComplete == Transition("transition_complete", COMPLETE, "report_complete")
ReportComplete == Report("report_complete", Pct(100), "return")
Return ==
    /\ pc = "return"
    /\ outcome' = "returned"
    /\ pc' = "done"
    /\ UNCHANGED <<stateVars, repair_iteration, book, index, obsVars, callVars, genVars, clock>>

Next ==
    \/ \E limit \in RepairLimits : Start(limit)
    \/ ReportStart
    \/ TransitionInterpret \/ ReportInterpret \/ InterpretPrompt
    \/ TransitionPlan \/ ReportPlan \/ PlanBook
    \/ TransitionWrite \/ ReportWrite
    \/ WriteBookEnter \/ WriteChapter \/ AuthorGenerate \/ AuthorTrack
    \/ WriteBookReturn
    \/ TransitionReview \/ ReportReview \/ ReviewBook
    \/ RepairLoopEnter \/ RepairLoopExit
    \/ TransitionRepair \/ ReportRepair
    \/ RepairBookEnter \/ RepairSkip \/ RepairChapter \/ RepairBookReturn
    \/ TransitionReReview \/ ReportReReview \/ ReReviewBook
    \/ TransitionFormat \/ ReportFormat \/ FormatBook
    \/ TransitionExport \/ ReportExport \/ ExportBook
    \/ TransitionComplete \/ ReportComplete \/ Return

Spec == Init /\ [][Next]_vars

\* the run is one sequential thread: a step that can be taken is taken
LiveSpec == Spec /\ WF_vars(Next)

\* ================================================================ claims
Terminal == {COMPLETE, FAILED}
Max0(n) == IF n > 0 THEN n ELSE 0
CountOf(seq, x) == Cardinality({i \in 1..Len(seq) : seq[i] = x})
Last(seq) == seq[Len(seq)]
Front(seq) == SubSeq(seq, 1, Len(seq) - 1)

\* the transition table as the specification prints it, one pair per allowed move
TransitionTable ==
    {<<INIT, INTERPRET>>, <<INIT, FAILED>>,
     <<INTERPRET, PLAN>>, <<INTERPRET, FAILED>>,
     <<PLAN, WRITE>>, <<PLAN, FAILED>>,
     <<WRITE, REVIEW>>, <<WRITE, FAILED>>,
     <<REVIEW, FORMAT>>, <<REVIEW, REPAIR>>, <<REVIEW, FAILED>>,
     <<REPAIR, REVIEW>>, <<REPAIR, FAILED>>,
     <<FORMAT, EXPORT>>, <<FORMAT, FAILED>>,
     <<EXPORT, COMPLETE>>, <<EXPORT, FAILED>>}

\* C1: whatever state s a call is made in and whatever its target t,
\* can_transition_to / transition_to answer true exactly when (s, t) is in the
\* transition table; FAILED is allowed from every non-terminal state; and a
\* transition_to outside the table answers false and leaves current_state as it was.
C1_TransitionTable ==
    lastCall.op # "none" =>
        /\ lastCall.ret = (<<lastCall.from, lastCall.target>> \in TransitionTable)
        /\ (lastCall.target = FAILED /\ lastCall.from \notin Terminal => lastCall.ret)
        /\ (lastCall.op = "transition_to"
              /\ <<lastCall.from, lastCall.target>> \notin TransitionTable
            => ~lastCall.ret /\ current_state = lastCall.from)

\* a transition_to outside the table (REVIEW -> WRITE) was just rejected
C1_Witness ==
    /\ lastCall.op = "transition_to"
    /\ lastCall.from = REVIEW
    /\ lastCall.target = WRITE
    /\ ~lastCall.ret
    /\ current_state = REVIEW

\* C2: COMPLETE and FAILED are absorbing: a call made in one of them answers
\* false and leaves current_state unchanged, so the state never changes again.
C2_TerminalAbsorbing ==
    [][(current_state \in Terminal) =>
         (current_state' = current_state /\ lastCall'.ret = FALSE)]_vars

\* transition_to(FAILED) was just called on a COMPLETE state, some calls after
\* COMPLETE was reached
C2_Witness ==
    /\ lastCall.op = "transition_to"
    /\ lastCall.from = COMPLETE
    /\ lastCall.target = FAILED
    /\ current_state = COMPLETE
    /\ clock >= 10

\* C8: as long as the calls made so far follow INTERPRET, PLAN, WRITE, REVIEW,
\* (REPAIR, REVIEW)*, FORMAT, EXPORT, COMPLETE, each transition_to answered true
\* and current_state is the last target; at the end the state is COMPLETE with
\* completed_at set.
C8_HappyPath ==
    /\ (happy # "off" /\ lastCall.op = "transition_to" => lastCall.ret)
    /\ (happy # "off" => current_state = happy)
    /\ (happy = COMPLETE => current_state = COMPLETE /\ completed_at # None)

\* the eleven calls of the path with two repair loops have been made
C8_Witness ==
    /\ happy = COMPLETE
    /\ clock = 11
    /\ current_state = COMPLETE
    /\ completed_at = Some(11)

\* C9: completed_at is set exactly when current_state is COMPLETE (FAILED never
\* stamps it), and a rejected transition_to leaves it as it was.
C9_CompletionTimestamp ==
    /\ []((completed_at # None) <=> (current_state = COMPLETE))
    /\ [][lastCall'.ret = FALSE => completed_at' = completed_at]_vars

\* a transition_to was rejected on a COMPLETE state: the timestamp of the
\* seventh call, which reached COMPLETE, is still there
C9_Witness ==
    /\ current_state = COMPLETE
    /\ completed_at = Some(7)
    /\ lastCall.op = "transition_to"
    /\ lastCall.from = COMPLETE
    /\ ~lastCall.ret
    /\ clock > 7

\* C3: a run in which no call raised, with max_repair_iterations = M >= 0 and a
\* failing result in every review pass, returns (it does not raise) after exactly
\* M repair passes and M+1 review passes, in COMPLETE with repair_iterations = M
\* and the book flagged unresolved_review_issues.
C3_RepairLoopCount ==
    /\ (fault = NoFault => outcome # "raised")
    /\ (pc = "done" /\ fault = NoFault /\ allFailed /\ max_repair_iterations >= 0 =>
          /\ outcome = "returned"
          /\ repairPasses = max_repair_iterations
          /\ reviewPasses = max_repair_iterations + 1
          /\ current_state = COMPLETE
          /\ repair_iterations = max_repair_iterations
          /\ "unresolved_review_issues" \in book[1].metadata)

\* the run of the specification's scenario: M = 3, every review failed
C3_Witness ==
    /\ pc = "done"
    /\ outcome = "returned"
    /\ allFailed
    /\ max_repair_iterations = 3
    /\ repairPasses = 3
    /\ reviewPasses = 4

\* C4: in every reachable state the number of repair passes started and
\* state.repair_iterations are at most max(0, max_repair_iterations), and a run
\* that has ended has reached COMPLETE or FAILED.
C4_RepairLoopTerminates ==
    /\ repairPasses <= Max0(max_repair_iterations)
    /\ repair_iterations <= Max0(max_repair_iterations)
    /\ (pc = "done" => current_state \in Terminal)

\* the part of C4 that holds of the code, under LiveSpec: the bound on the repair
\* passes, and every run that has entered the try block reaches COMPLETE or
\* FAILED, whatever the reviews answer and whichever call raises
RepairLoopBoundedInTry ==
    /\ [](/\ repairPasses <= Max0(max_repair_iterations)
          /\ repair_iterations <= Max0(max_repair_iterations))
    /\ ((pc = "transition_interpret") ~> (current_state \in Terminal))

\* C5: when the run returns the state is COMPLETE, and the book carries
\* unresolved_review_issues exactly when the last review pass holds a result
\* that did not pass; a run in which no call raised always returns.
C5_DegradedFlag ==
    /\ (outcome = "returned" =>
          /\ current_state = COMPLETE
          /\ ("unresolved_review_issues" \in book[1].metadata)
             <=> (\E i \in 1..Len(review_results) : review_results[i].passed = FALSE))
    /\ (pc = "done" /\ fault = NoFault => outcome = "returned")

\* max_repair_iterations = 0: no repair, a mixed last review, the flag set
C5_Witness ==
    /\ outcome = "returned"
    /\ max_repair_iterations = 0
    /\ repairPasses = 0
    /\ Len(review_results) = 2
    /\ review_results[1].passed
    /\ ~review_results[2].passed
    /\ "unresolved_review_issues" \in book[1].metadata

\* C6: every run ends either returned in COMPLETE, or raised in FAILED with a
\* non-empty error list, wherever the exception came from.
C6_OutcomeDichotomy ==
    pc = "done" =>
        \/ outcome = "returned" /\ current_state = COMPLETE
        \/ outcome = "raised" /\ current_state = FAILED /\ Len(errors) > 0

\* C7: the lifecycle states a run enters start with INIT, follow INTERPRET, PLAN,
\* WRITE, REVIEW, (REPAIR, REVIEW)^k, FORMAT, EXPORT, COMPLETE with k at most
\* max(0, max_repair_iterations), with FAILED at most once and last; no
\* _transition call is refused.
C7_PhaseOrdering ==
    LET path == IF Last(entered) = FAILED THEN Front(entered) ELSE entered
    IN /\ Len(entered) > 0
       /\ entered[1] = INIT
       /\ \A i \in 1..(Len(path) - 1) : path[i + 1] \in HappyNext(path[i])
       /\ ~In(FAILED, path)
       /\ CountOf(path, REPAIR) <= Max0(max_repair_iterations)
       /\ ~In("Invalid state transition", errors)

\* a run that went twice through REPAIR and reached COMPLETE
C7_Witness ==
    /\ Last(entered) = COMPLETE
    /\ CountOf(entered, REPAIR) = 2
    /\ Len(entered) = 12

\* C10: the percentages reported in a run never decrease, and a run that
\* returned reported 0 first and 100 last.
C10_ProgressMonotone ==
    /\ \A i \in 1..(Len(reported) - 1) : PctLeq(reported[i], reported[i + 1])
    /\ (outcome = "returned" =>
          reported[1] = Pct(0) /\ Last(reported) = Pct(100))

\* C11: a run starts on a new AgenticState whatever the run before left: at the
\* first statement after the state is created it is INIT with no errors, zero
\* counters, no blueprint, no review results and no completed_at; and at every
\* moment the errors of get_state() are those of the current run only (at most
\* the one the handler of this run recorded).
C11_FreshStatePerRun ==
    /\ (pc = "report_start" =>
          /\ current_state = INIT
          /\ errors = <<>>
          /\ chapters_written = 0
          /\ chapters_reviewed = 0
          /\ repair_iterations = 0
          /\ blueprint = None
          /\ review_results = <<>>
          /\ completed_at = None)
    /\ (pc # "idle" =>
          /\ Len(errors) <= 1
          /\ (errors # <<>> => outcome = "raised" /\ fault # NoFault))

\* the second run on a generator whose first run ended FAILED with an error
\* recorded has just created its state
C11_Witness ==
    /\ run = 2
    /\ pc = "report_start"
    /\ previous # None
    /\ previous[1].current_state = FAILED
    /\ previous[1].errors = <<"agent">>
    /\ errors = <<>>
    /\ current_state = INIT

\* the key concepts of the first k chapters of a blueprint
ConceptsOfChapters(bp, k) == UNION {bp.chapters[j].key_concepts : j \in 1..k}

\* C14: in the WRITE phase the introduced-concepts set is empty before the first
\* chapter; while chapter k = index + 1 is generated (and until its generation
\* calls have all returned) the set is the union of the key concepts of chapters
\* 1..k-1 of the current book, hence holds no concept of chapter k or later and
\* none that only a previous book had; and the set changes only at the reset and
\* after the generation calls of a chapter.
C14_ConceptTrackingOrder ==
    /\ [](/\ (pc = "write_chapter" /\ index = 0 => introduced_concepts = {})
          /\ (pc \in {"author_write_chapter", "track_concepts"} =>
                /\ introduced_concepts = ConceptsOfChapters(blueprint[1], index)
                /\ \A j \in (index + 1)..Len(blueprint[1].chapters) :
                       introduced_concepts \cap blueprint[1].chapters[j].key_concepts = {}))
    /\ [][introduced_concepts' # introduced_concepts =>
              pc \in {"write_book", "track_concepts"}]_vars

\* chapter 2 of the second book is being generated; the first book, which was
\* completed, had left its concepts in the author
C14_Witness ==
    /\ run = 2
    /\ pc = "author_write_chapter"
    /\ index = 1
    /\ previous[1].had_concepts
    /\ previous[1].current_state = COMPLETE
    /\ introduced_concepts = {<<"go", 1>>}

\* C12: for every target T and every chapter of w words (introduction, section
\* contents and summary together), _check_length reports "too short" exactly when
\* w < 0.7 * T, "too long" exactly when w > 1.3 * T, nothing in between
\* (boundaries included), and never both.
C12_LengthCheck ==
    lastCall.op = "_check_length" /\ lastCall.ret # None =>
        LET T == lastCall.target_length
            w == WordCount(lastCall.chapter)
            issues == lastCall.ret[1]
            short == \E i \in 1..Len(issues) : "too short" \in issues[i].markers
            long == \E i \in 1..Len(issues) : "too long" \in issues[i].markers
        IN /\ short <=> (10 * w < 7 * T)
           /\ long <=> (10 * w > 13 * T)
           /\ ~(short /\ long)

\* C17: in each of the four repair strategies, a section for which the
\* generation call answers the empty text keeps the content it had.
C17_RepairSoftFailure ==
    lastCall.op \in Strategies /\ lastCall.ret # None =>
        \A i \in 1..Len(lastCall.sections) :
            lastCall.resp[i] = Empty => lastCall.ret[1][i] = lastCall.sections[i]

\* C18 as stated: repair_chapter applies expand exactly when some issue holds
\* "too short" (in any case), compress exactly when some issue holds "too long",
\* adjust-complexity exactly when some issue holds "complexity", and
\* improve-coherence exactly when some issue holds "coherence" or
\* "contradiction", each whatever other markers the issues hold.
C18_RepairDispatch ==
    lastCall.op = "repair_chapter" /\ lastCall.ret # None =>
        LET applied == lastCall.ret[1].applied
            Has(marker) == \E i \in 1..Len(lastCall.issues) :
                               marker \in lastCall.issues[i].markers
        IN /\ In("expand", applied) <=> Has("too short")
           /\ In("compress", applied) <=> Has("too long")
           /\ In("adjust_complexity", applied) <=> Has("complexity")
           /\ In("improve_coherence", applied) <=>
                  (Has("coherence") \/ Has("contradiction"))

\* the strategy calls the issues ask for, one issue after the other: of "too
\* short", "too long" and "complexity" the first that the issue holds, in any case
RECURSIVE StrategiesByFirstMarker(_)
StrategiesByFirstMarker(issues) ==
    IF issues = <<>> THEN <<>>
    ELSE (IF "too short" \in Head(issues).markers THEN <<"expand">>
          ELSE IF "too long" \in Head(issues).markers THEN <<"compress">>
          ELSE IF "complexity" \in Head(issues).markers THEN <<"adjust_complexity">>
          ELSE <<>>)
         \o StrategiesByFirstMarker(Tail(issues))

\* the strategies of a list applied one after the other to the same sections
RECURSIVE ApplyInSequence(_, _, _)
ApplyInSequence(strategies, sections, resp) ==
    IF strategies = <<>> THEN sections
    ELSE ApplyInSequence(Tail(strategies),
                         ApplyStrategy(Head(strategies), sections, resp), resp)

\* C18, amended: repair_chapter takes the issues in order and runs for each of
\* them at most one of expand, compress, adjust-complexity: the first whose marker
\* "too short", "too long", "complexity" (in this order, in any case) the issue
\* holds; then it runs improve-coherence once if some issue holds "coherence" or
\* "contradiction", whatever else the issues hold. The calls are made in that
\* order on the same chapter, each on the result of the one before.
C18_RepairDispatchByFirstMarker ==
    lastCall.op = "repair_chapter" /\ lastCall.ret # None =>
        LET expected ==
                StrategiesByFirstMarker(lastCall.issues)
                \o (IF \E i \in 1..Len(lastCall.issues) :
                          lastCall.issues[i].markers \cap {"coherence", "contradiction"} # {}
                    THEN <<"improve_coherence">> ELSE <<>>)
        IN /\ lastCall.ret[1].applied = expected
           /\ lastCall.ret[1].sections =
                  ApplyInSequence(expected, lastCall.sections, lastCall.resp)

\* an upper-case issue that holds "too long" and "complexity", then an issue on
\* coherence: compress and improve-coherence ran, adjust-complexity did not
C18_Witness ==
    /\ lastCall.op = "repair_chapter"
    /\ lastCall.ret # None
    /\ lastCall.issues = <<Issue({"too long", "complexity"}, TRUE),
                           Issue({"coherence"}, FALSE)>>
    /\ lastCall.ret[1].applied = <<"compress", "improve_coherence">>
    /\ lastCall.ret[1].sections # lastCall.sections

\* the order BEGINNER < INTERMEDIATE < ADVANCED < EXPERT
Rank(level) ==
    CASE level = BEGINNER -> 1
      [] level = INTERMEDIATE -> 2
      [] level = ADVANCED -> 3
      [] OTHER -> 4

\* C13: for every base complexity and every number N >= 1 of chapters, the
\* complexity of chapter i never decreases as i goes from 1 to N, never exceeds
\* the base, and is never below INTERMEDIATE in an EXPERT book.
C13_ComplexityProgression ==
    lastCall.op = "_get_chapter_complexity" /\ lastCall.ret # None =>
        LET N == lastCall.total_chapters
            level == lastCall.ret[1]
        IN /\ \A i \in 1..N, j \in 1..N :
                  i <= j => Rank(level[i]) <= Rank(level[j])
           /\ \A i \in 1..N : Rank(level[i]) <= Rank(lastCall.base_complexity)
           /\ (lastCall.base_complexity = EXPERT =>
                  \A i \in 1..N : Rank(level[i]) >= Rank(INTERMEDIATE))

\* an ADVANCED book of 10 chapters: chapter 1 is BEGINNER, chapter 2
\* INTERMEDIATE, chapter 10 ADVANCED
C13_Witness ==
    /\ lastCall.op = "_get_chapter_complexity"
    /\ lastCall.ret # None
    /\ lastCall.base_complexity = ADVANCED
    /\ lastCall.total_chapters = 10
    /\ lastCall.ret[1][1] = BEGINNER
    /\ lastCall.ret[1][2] = INTERMEDIATE
    /\ lastCall.ret[1][10] = ADVANCED

\* C15: interpret_prompt never raises, whatever the generation call answers;
\* and when the answer holds no object that makes a UserPrompt (no object at
\* all, or one with an unknown complexity level) it returns the prompt with the
\* raw text as topic, "general readers" as audience and "Understand {raw text}"
\* as learning outcome.
C15_InterpretationFallback ==
    lastCall.op = "interpret_prompt" /\ lastCall.ret # None =>
        LET response == lastCall.response
            level == Get(response.data, "complexity_level", JNull)
            usable == /\ response.kind \in {"object", "array_of_objects"}
                      /\ level \in ComplexityLevel \cup {"", JNull}
        IN /\ lastCall.ret[1].raised = "none"
           /\ (~usable =>
                  lastCall.ret[1].prompt =
                      Some(UserPromptOf(lastCall.raw_prompt, "general readers",
                                        <<"Understand ", lastCall.raw_prompt>>, None)))

\* the key concepts of the chapters before chapter i, in the order they were met
RECURSIVE ConceptsBefore(_, _)
ConceptsBefore(chapters, i) ==
    IF i <= 1 THEN <<>>
    ELSE ConceptsBefore(chapters, i - 1) \o chapters[i - 1].key_concepts

\* the last n elements of a sequence (all of them if it has fewer)
LastN(seq, n) ==
    IF Len(seq) <= n THEN seq ELSE SubSeq(seq, Len(seq) - n + 1, Len(seq))

\* C19: in a blueprint built from a parsed array of chapter objects, the
\* prerequisites of chapter i are key concepts of chapters 1..i-1 only, at most
\* 5 of them, and they are the 5 most recently accumulated ones.
C19_PrerequisiteWindow ==
    /\ lastCall.op = "create_blueprint"
    /\ lastCall.ret # None
    /\ \A k \in 1..Len(lastCall.response.items) : lastCall.response.items[k].object
    => LET chapters == lastCall.ret[1].chapters
       IN \A i \in 1..Len(chapters) :
              /\ \A k \in 1..Len(chapters[i].prerequisites) :
                     In(chapters[i].prerequisites[k], ConceptsBefore(chapters, i))
              /\ Len(chapters[i].prerequisites) <= 5
              /\ chapters[i].prerequisites = LastN(ConceptsBefore(chapters, i), 5)

\* C20: in every blueprint create_blueprint returns, the chapter numbers are
\* positive, distinct, and 1..len(chapters) in list order, and total_chapters is
\* len(chapters), whatever the chapter-design response was.
C20_ChapterNumbering ==
    lastCall.op = "create_blueprint" /\ lastCall.ret # None =>
        LET chapters == lastCall.ret[1].chapters
        IN /\ \A i \in 1..Len(chapters) : chapters[i].number > 0
           /\ \A i \in 1..Len(chapters), j \in 1..Len(chapters) :
                  i # j => chapters[i].number # chapters[j].number
           /\ \A i \in 1..Len(chapters) : chapters[i].number = i
           /\ lastCall.ret[1].total_chapters = Len(chapters)

\* C16: for every BookBlueprint bp, BookBlueprint.from_dict(bp.to_dict()) is bp:
\* every field comes back, with the chapters, their review_status and
\* review_notes, and the description, bloom_level and chapter_number of every
\* learning objective of the book and of its chapters.
C16_BlueprintRoundTrip ==
    lastCall.op = "round_trip" /\ lastCall.ret # None => lastCall.ret[1] = lastCall.bp

\* C21: when the chapter-design response holds no decodable array,
\* create_blueprint returns exactly N placeholder chapters (N the requested
\* length, or 10), numbered 1..N, each with 3 section titles.
C21_ChapterPlanFallback ==
    /\ lastCall.op = "create_blueprint"
    /\ lastCall.ret # None
    /\ ~lastCall.response.array
    => LET bp == lastCall.ret[1]
           length == lastCall.user_prompt.book_length
           N == IF length # None /\ length[1] # 0 THEN length[1] ELSE DefaultBookLength
       IN /\ Len(bp.chapters) = N
          /\ \A i \in 1..Len(bp.chapters) :
                /\ bp.chapters[i].number = i
                /\ Len(bp.chapters[i].section_titles) = 3

\* C26: with no explicit complexity the planner infers it from the keywords in
\* the audience, whatever their case, the first category of the table winning:
\* 'beginner' or 'kids' give BEGINNER, else 'advanced' or 'senior' give
\* ADVANCED, else 'expert' or 'researcher' give EXPERT, else INTERMEDIATE; a
\* level the user names overrides the inference.
C26_ComplexityInference ==
    /\ /\ lastCall.op = "_infer_complexity"
       /\ lastCall.ret # None
       /\ lastCall.prompt.audience.markers \subseteq
              {"beginner", "kids", "advanced", "senior", "expert", "researcher"}
       => LET words == lastCall.prompt.audience.markers
          IN lastCall.ret[1] =
                IF words \cap {"beginner", "kids"} # {} THEN BEGINNER
                ELSE IF words \cap {"advanced", "senior"} # {} THEN ADVANCED
                ELSE IF words \cap {"expert", "researcher"} # {} THEN EXPERT
                ELSE INTERMEDIATE
    /\ /\ lastCall.op = "create_blueprint"
       /\ lastCall.ret # None
       /\ lastCall.user_prompt.complexity_level # None
       => lastCall.ret[1].complexity_level = lastCall.user_prompt.complexity_level[1]

\* the section contents of the chapter of a strategy call: what the strategy
\* returned, or what it was called with
SectionContents(call) == IF call.ret # None THEN call.ret[1] ELSE call.sections

\* C28: a section whose content is empty (as the author wrote it, or after a
\* strategy stored an empty generation result) is skipped by every repair
\* strategy: over every strategy call and every further repair iteration on the
\* chapter, a section that is empty is empty afterwards.
C28_EmptySectionsStayEmpty ==
    [][lastCall.op \in Strategies /\ lastCall'.op \in Strategies =>
          \A i \in 1..Len(lastCall.sections) :
              SectionContents(lastCall)[i] = Empty =>
                  SectionContents(lastCall')[i] = Empty]_vars

\* a strategy has returned a chapter in which it rewrote a section and left an
\* empty one empty, although the generation call answers 450 words for it
C28_Witness ==
    /\ lastCall.op \in Strategies
    /\ lastCall.ret # None
    /\ \E i \in 1..Len(lastCall.sections) :
          /\ lastCall.sections[i] = Empty
          /\ lastCall.resp[i] = Text(450, TRUE)
          /\ lastCall.ret[1][i] = Empty
    /\ \E i \in 1..Len(lastCall.sections) : lastCall.ret[1][i] # lastCall.sections[i]

\* C22: write_chapter never raises because of a code-example or exercise
\* response: whatever the generation calls answer (empty text, no object, an
\* object lacking an expected key) every section title gets its section, with
\* the addition or without it, and the chapter gets its summary.
C22_AuthorSoftFailure ==
    lastCall.op = "write_chapter" /\ lastCall.ret # None =>
        /\ lastCall.ret[1].raised = "none"
        /\ Len(lastCall.ret[1].sections) = Len(lastCall.responses)
        /\ lastCall.ret[1].summary

\* C23: review_chapter returns as issues the coherence, complexity, length and
\* topic lists in this order, passed exactly when there is none, and leaves the
\* blueprint chapter PASSED or NEEDS_REPAIR accordingly with the issues as
\* notes; and after a review pass every blueprint chapter has the status of the
\* result of its chapter, never PENDING or FAILED.
C23_ReviewVerdictAndStatus ==
    /\ lastCall.op = "review_chapter" /\ lastCall.ret # None =>
          LET result == lastCall.ret[1].result
              checks == lastCall.checks
          IN /\ result.issues = checks.coherence \o checks.complexity
                                \o checks.length \o checks.topic
             /\ result.passed <=> result.issues = <<>>
             /\ lastCall.ret[1].chapter_bp.review_status =
                    IF result.passed THEN "passed" ELSE "needs_repair"
             /\ lastCall.ret[1].chapter_bp.review_notes = result.issues
    /\ lastCall.op = "_review_book" /\ lastCall.ret # None =>
          \A j \in 1..Len(lastCall.bp_chapters) :
              LET chapter_bp == lastCall.ret[1].bp_chapters[j]
                  result == lastCall.ret[1].results[j]
              IN /\ chapter_bp.review_status \in {"passed", "needs_repair"}
                 /\ chapter_bp.review_status = "passed" <=> result.passed
                 /\ chapter_bp.review_notes = result.issues

\* the part of C23 that holds: the same, for a blueprint whose chapter numbers
\* are distinct
ReviewStatusAgreesWhenDistinct ==
    /\ lastCall.op = "_review_book"
    /\ lastCall.ret # None
    /\ \A i, j \in 1..Len(lastCall.bp_chapters) :
          i # j => lastCall.bp_chapters[i].number # lastCall.bp_chapters[j].number
    => \A j \in 1..Len(lastCall.bp_chapters) :
          /\ lastCall.ret[1].bp_chapters[j].review_status =
                 IF lastCall.ret[1].results[j].passed THEN "passed" ELSE "needs_repair"
          /\ lastCall.ret[1].bp_chapters[j].review_notes =
                 lastCall.ret[1].results[j].issues

\* the positions of the results that failed, in order
RECURSIVE FailedPositions(_, _)
FailedPositions(results, i) ==
    IF i > Len(results) THEN <<>>
    ELSE (IF results[i].passed THEN <<>> ELSE <<i>>) \o FailedPositions(results, i + 1)

\* C25: a repair pass calls repair_chapter once for each chapter whose result
\* failed and for no other; the chapters whose result passed keep their
\* content, and the book keeps its chapter numbers in their order.
C25_RepairPassFrame ==
    lastCall.op = "_repair_book" /\ lastCall.ret # None =>
        /\ lastCall.ret[1].calls = FailedPositions(lastCall.results, 1)
        /\ \A i \in 1..Len(lastCall.results) :
              lastCall.results[i].passed =>
                  lastCall.ret[1].chapters[i] = lastCall.chapters[i]
        /\ Numbers(lastCall.ret[1].chapters) = Numbers(lastCall.chapters)

\* the part of C25 that holds: the same, for a book whose chapter numbers are
\* distinct
RepairPassFrameWhenDistinct ==
    /\ lastCall.op = "_repair_book"
    /\ lastCall.ret # None
    /\ \A i, j \in 1..Len(lastCall.chapters) :
          i # j => lastCall.chapters[i].number # lastCall.chapters[j].number
    => /\ lastCall.ret[1].calls = FailedPositions(lastCall.results, 1)
       /\ \A i \in 1..Len(lastCall.results) :
             lastCall.results[i].passed =>
                 lastCall.ret[1].chapters[i] = lastCall.chapters[i]
       /\ Numbers(lastCall.ret[1].chapters) = Numbers(lastCall.chapters)

\* the planner returned a blueprint with no chapters in this run
ZeroChapters == blueprint # None /\ blueprint[1].chapters = <<>>

\* the steps of the chapter loop and of the repair loop
ChapterSteps == {"author_write_chapter", "track_concepts"}
RepairSteps ==
    {"transition_repair", "report_repair", "repair_enter", "repair_book",
     "transition_rereview", "report_rereview", "rereview_book"}

\* C29: in a run whose blueprint has no chapters, no chapter is written
\* (chapters_written stays 0 and the book stays empty), the review pass yields an
\* empty result list, no repair pass is started, the book never carries
\* unresolved_review_issues, and when no call raises the run returns in COMPLETE.
C29_ZeroChapterRun ==
    ZeroChapters =>
        /\ chapters_written = 0
        /\ pc \notin ChapterSteps \cup RepairSteps
        /\ review_results = <<>>
        /\ chapters_reviewed = 0
        /\ repairPasses = 0
        /\ repair_iterations = 0
        /\ book # None =>
              /\ book[1].chapters = <<>>
              /\ "unresolved_review_issues" \notin book[1].metadata
        /\ pc = "done" /\ fault = NoFault =>
              /\ outcome = "returned"
              /\ current_state = COMPLETE
              /\ reviewPasses = 1

\* a zero-chapter run that returned, with a repair limit that allows repairs
C29_Witness ==
    /\ ZeroChapters
    /\ outcome = "returned"
    /\ current_state = COMPLETE
    /\ max_repair_iterations > 0
    /\ reviewPasses = 1
    /\ book[1].chapters = <<>>

\* C24: every review pass, the first and each one after a repair pass, leaves
\* in state.review_results one result per chapter of the book, result i with the
\* number of chapter i and the verdict this pass wrote into the blueprint, and in
\* state.chapters_reviewed the number of chapters.
C24_FullReReview ==
    [][reviewPasses' = reviewPasses + 1 =>
          /\ Len(review_results') = Len(book[1].chapters)
          /\ \A i \in 1..Len(book[1].chapters) :
                /\ review_results'[i].chapter_number = book[1].chapters[i]
                /\ review_results'[i].passed
                   <=> blueprint'[1].chapters[i].review_status = "passed"
                /\ review_results'[i].issues = blueprint'[1].chapters[i].review_notes
          /\ chapters_reviewed' = Len(book[1].chapters)]_vars

\* a second pass, after a repair pass for a failed chapter: both chapters have a
\* result again, and the chapter that needed no repair is the one that fails now
C24_Witness ==
    /\ pc = "repair_loop"
    /\ reviewPasses = 2
    /\ repairPasses = 1
    /\ reported[Len(reported)] = Pct(80)
    /\ Len(review_results) = 2
    /\ chapters_reviewed = 2
    /\ review_results[1].passed
    /\ ~review_results[2].passed

\* the entry to_dict writes for a blueprint chapter of a pass
SnapshotOfChapter(chapter_bp) ==
    ChapterToDict([number |-> chapter_bp.number, complexity_level |-> INTERMEDIATE,
                   learning_objectives |-> <<>>,
                   review_status |-> chapter_bp.review_status,
                   review_notes |-> chapter_bp.review_notes])

\* C27: the snapshot of the blueprint taken at the end of WRITE, before the
\* first review pass, has every chapter pending with no notes, and after the
\* pass every chapter of the blueprint itself is PASSED or NEEDS_REPAIR.
C27_BlueprintSnapshot ==
    /\ lastCall.op = "_review_book"
    /\ lastCall.ret # None
    /\ \A i \in 1..Len(lastCall.bp_chapters) :
          lastCall.bp_chapters[i].review_status = "pending"
    => \A i \in 1..Len(lastCall.bp_chapters) :
          /\ SnapshotOfChapter(lastCall.bp_chapters[i]).review_status = "pending"
          /\ SnapshotOfChapter(lastCall.bp_chapters[i]).review_notes = <<>>
          /\ lastCall.ret[1].bp_chapters[i].review_status \in {"passed", "needs_repair"}

\* the part of C27 that holds, in a run whose blueprint numbers its chapters
\* 1..n: a book that went through WRITE carries the snapshot with every field of
\* the blueprint, each chapter in it pending with no notes, and once a review
\* pass is over every chapter of the blueprint is PASSED or NEEDS_REPAIR.
SnapshotStaysPending ==
    book # None /\ "blueprint" \in book[1].metadata =>
        LET snapshot == book[1].metadata_blueprint[1]
        IN /\ DOMAIN snapshot = DOMAIN blueprint[1]
           /\ Len(snapshot.chapters) = Len(blueprint[1].chapters)
           /\ \A i \in 1..Len(snapshot.chapters) :
                 /\ snapshot.chapters[i].number = blueprint[1].chapters[i].number
                 /\ snapshot.chapters[i].review_status = "pending"
                 /\ snapshot.chapters[i].review_notes = <<>>
                 /\ reviewPasses > 0 =>
                       blueprint[1].chapters[i].review_status
                           \in {"passed", "needs_repair"}
           /\ outcome = "returned" => reviewPasses > 0

\* the format tags the formatter has an extension for
KnownFormats == {"html", "pdf", "pdf-pandoc", "epub", "markdown"}

\* what the export of this run did: the file of the caller's base path with
\* this extension was written, and that one is recorded in state.output_path
Exported(written_ext, recorded_ext) ==
    /\ written = Some(Path("output/book", written_ext))
    /\ output_path = Path("output/book", recorded_ext)

====
